---- MODULE Spec2Model ----
(***************************************************************************)
(* EV charging optimisation: the schedule evaluator                        *)
(* (src/src/services/optimization_service.py, EVChargingProblem) and the   *)
(* data model it reads (src/src/core/models/vehicle.py,                    *)
(* src/src/core/entities/scenario.py).                                     *)
(*                                                                         *)
(* Numbers.  The code computes in floating point; the model computes in    *)
(* exact fixed point, with every quantity an integer number of units:      *)
(*   power              0.5 kW     ( 7.5 kW = 15,  -6 kW = -12, 30 kW = 60)*)
(*   battery capacity   0.5 kWh    ( 30 kWh = 60,  60 kWh = 120)           *)
(*   state of charge    1/120      ( 0.2 = 24, 0.8 = 96, 1.0 = SocOne)     *)
(*   price              0.01 /kWh  ( 0.20 = 20)                            *)
(*   cost               0.005      ( 6.0 = 1200)                           *)
(* Power and capacity share their unit, so P * dt / capacity is the same   *)
(* ratio as in the code; the capacities and powers drawn below make every  *)
(* energy step a whole number of SoC units, so no division rounds.         *)
(* Hours are 0-based in the code and sequences 1-based here: the cell of   *)
(* hour h is index h + 1.                                                  *)
(***************************************************************************)
EXTENDS Integers, Sequences, FiniteSets, TLC

VARIABLES
    scenario,   \* the Scenario shared by every evaluation (self.scenario)
    x,          \* the decision vector handed to _evaluate (flat, length N*T)
    out,        \* the out dict of that call: [F, G], empty before the call
    frame,      \* the locals of that call: mask, power_matrix, soc_profiles
    cpc,        \* concurrent calls: each call's position in _evaluate
    cx,         \* concurrent calls: each call's input vector
    cframe,     \* concurrent calls: each call's locals
    cout,       \* concurrent calls: each call's out dict
    opt,        \* one optimize() call: position, problem, res, result, error
    build,      \* one Scenario(...) construction: arguments, object, error
    met,        \* one calculate_all() call: calculator, front, locals, metrics
    fc,         \* one FileCache: configuration, files, clock, last call
    uc,         \* one OptimizeChargingUseCase: cache, calls, events, files
    req,        \* one _make_request call: attempts, outcome
    gen         \* the process-wide numpy generator and generate_scenario calls

vars == <<scenario, x, out, frame, cpc, cx, cframe, cout, opt, build, met,
         fc, uc, req, gen>>
seqVars == <<x, out, frame>>
concVars == <<cpc, cx, cframe, cout>>
serviceVars == <<opt, build, met>>
ioVars == <<fc, uc, req, gen>>

----------------------------------------------------------------------------
(* Bounds of the model and constants of the program *)

MaxVehicles == 2
SmallHorizon == 3
NumCalls == 2

\* Vehicle._validate and Vehicle.hours_available: the hard-coded day length.
HoursPerDay == 24
\* settings.dt
dt == 1
\* 1.0 as a state of charge (soc_profiles - 1.0; soc bounds 0 <= soc <= 1.0)
SocOne == 120
\* settings.charging_power_min / charging_power_max: the bound box xl, xu
charging_power_min == -12
charging_power_max == 60

----------------------------------------------------------------------------
(* numpy helpers *)

Max(a, b) == IF a >= b THEN a ELSE b
Min(a, b) == IF a <= b THEN a ELSE b
Abs(a) == IF a < 0 THEN -a ELSE a

RECURSIVE SumSeq(_)
\* np.sum of a 1-d array
SumSeq(s) == IF Len(s) = 0 THEN 0 ELSE s[1] + SumSeq(Tail(s))

RECURSIVE MaxSeq(_)
\* np.max of a non-empty 1-d array
MaxSeq(s) ==
    IF Len(s) = 1 THEN s[1]
    ELSE LET rest == MaxSeq(Tail(s)) IN IF s[1] >= rest THEN s[1] ELSE rest

RECURSIVE CumSum(_)
\* np.cumsum along one row
CumSum(s) ==
    IF Len(s) = 0 THEN <<>>
    ELSE LET front == CumSum(SubSeq(s, 1, Len(s) - 1))
         IN  Append(front, (IF Len(front) = 0 THEN 0 ELSE front[Len(front)]) + s[Len(s)])

\* np.sum(m, axis=0): the per-hour column totals of a matrix with t columns
SumAxis0(m, t) == [h \in 1..t |-> SumSeq([i \in 1..Len(m) |-> m[i][h]])]

\* np.sum over every cell of a matrix
SumAll(m) == SumSeq([i \in 1..Len(m) |-> SumSeq(m[i])])

----------------------------------------------------------------------------
(* Vehicle (src/src/core/models/vehicle.py) *)

\* Mutant: the overnight branch is missing
available_at_same_day_only(v, hour) ==
    v.arrival_time <= hour /\ hour < v.departure_time

\* Vehicle.available_at(hour)
available_at(v, hour) ==
    IF v.departure_time > v.arrival_time
    THEN v.arrival_time <= hour /\ hour < v.departure_time
    ELSE hour >= v.arrival_time \/ hour < v.departure_time

\* Mutant: the departure hour is not validated
vehicle_valid_no_departure(v) ==
    /\ 0 <= v.soc_initial /\ v.soc_initial <= SocOne
    /\ 0 <= v.soc_target /\ v.soc_target <= SocOne
    /\ 0 <= v.arrival_time /\ v.arrival_time < HoursPerDay
    /\ v.battery_capacity > 0

\* Vehicle._validate: the parameter ranges a constructed Vehicle satisfies
vehicle_valid(v) ==
    /\ 0 <= v.soc_initial /\ v.soc_initial <= SocOne
    /\ 0 <= v.soc_target /\ v.soc_target <= SocOne
    /\ 0 <= v.arrival_time /\ v.arrival_time < HoursPerDay
    /\ 0 <= v.departure_time /\ v.departure_time < HoursPerDay
    /\ v.battery_capacity > 0

----------------------------------------------------------------------------
(* Scenario (src/src/core/entities/scenario.py) *)

\* Scenario.__post_init__: the conditions a constructed Scenario satisfies
scenario_valid(s) ==
    /\ Len(s.price_profile) = s.time_horizon
    /\ s.site_max_power > 0
    /\ Len(s.vehicles) > 0

\* Scenario.get_availability_mask
get_availability_mask(s) ==
    [i \in 1..Len(s.vehicles) |->
        [h \in 1..s.time_horizon |-> available_at(s.vehicles[i], h - 1)]]

get_initial_soc_vector(s) == [i \in 1..Len(s.vehicles) |-> s.vehicles[i].soc_initial]
get_target_soc_vector(s) == [i \in 1..Len(s.vehicles) |-> s.vehicles[i].soc_target]
get_departure_times(s) == [i \in 1..Len(s.vehicles) |-> s.vehicles[i].departure_time]
get_battery_capacities(s) == [i \in 1..Len(s.vehicles) |-> s.vehicles[i].battery_capacity]

----------------------------------------------------------------------------
(* EVChargingProblem (src/src/services/optimization_service.py) *)

\* x.reshape((n_vehicles, t_horizon)): row-major
reshape(v, n, t) == [i \in 1..n |-> [h \in 1..t |-> v[(i - 1) * t + h]]]

\* Mutant: the mask is not applied
apply_mask_skipped(pm, mask) == pm

\* power_matrix * mask: a float times True is itself, times False is 0
apply_mask(pm, mask) ==
    [i \in 1..Len(pm) |->
        [h \in 1..Len(pm[i]) |-> IF mask[i][h] THEN pm[i][h] ELSE 0]]

\* Mutant: the initial SoC is not added to the cumulated energy
calculate_soc_profiles_no_initial(s, pm) ==
    [i \in 1..Len(pm) |->
        CumSum([h \in 1..Len(pm[i]) |->
            (pm[i][h] * dt * SocOne) \div s.vehicles[i].battery_capacity])]

\* EVChargingProblem._calculate_soc_profiles
calculate_soc_profiles(s, pm) ==
    LET battery_capacities == get_battery_capacities(s)
        soc_initial == get_initial_soc_vector(s)
        energy_step == [i \in 1..Len(pm) |->
                          [h \in 1..Len(pm[i]) |->
                              (pm[i][h] * dt * SocOne) \div battery_capacities[i]]]
    IN  [i \in 1..Len(pm) |->
            LET cs == CumSum(energy_step[i])
            IN  [h \in 1..Len(cs) |-> cs[h] + soc_initial[i]]]

\* Mutant: the cost is clipped at zero
calculate_cost_clipped(s, pm) ==
    Max(0, SumSeq([h \in 1..s.time_horizon |->
                      SumAxis0(pm, s.time_horizon)[h] * s.price_profile[h] * dt]))

\* EVChargingProblem._calculate_cost
calculate_cost(s, pm) ==
    LET total_power == SumAxis0(pm, s.time_horizon)
    IN  SumSeq([h \in 1..s.time_horizon |-> total_power[h] * s.price_profile[h] * dt])

\* Mutant: the shortfall is not clipped at zero, so a surplus offsets it
calculate_dissatisfaction_signed(s, soc_profiles) ==
    SumSeq([i \in 1..Len(s.vehicles) |->
        s.vehicles[i].soc_target
        - soc_profiles[i][Min(s.vehicles[i].departure_time, s.time_horizon - 1) + 1]])

\* Mutant: the distance to the target is penalised on both sides
calculate_dissatisfaction_abs(s, soc_profiles) ==
    SumSeq([i \in 1..Len(s.vehicles) |->
        Abs(s.vehicles[i].soc_target
            - soc_profiles[i][Min(s.vehicles[i].departure_time, s.time_horizon - 1) + 1])])

\* EVChargingProblem._calculate_dissatisfaction
calculate_dissatisfaction(s, soc_profiles) ==
    LET departure_times == get_departure_times(s)
        target_socs == get_target_soc_vector(s)
        final_socs == [i \in 1..Len(departure_times) |->
                          soc_profiles[i][Min(departure_times[i], s.time_horizon - 1) + 1]]
        shortfall == [i \in 1..Len(final_socs) |-> Max(0, target_socs[i] - final_socs[i])]
    IN  SumSeq(shortfall)

\* Mutant: the peak of the signed total, without the absolute value
calculate_peak_power_signed(s, pm) ==
    MaxSeq(SumAxis0(pm, s.time_horizon))

\* EVChargingProblem._calculate_peak_power
calculate_peak_power(s, pm) ==
    LET total_power == SumAxis0(pm, s.time_horizon)
    IN  MaxSeq([h \in 1..s.time_horizon |-> Abs(total_power[h])])

\* Mutant: only the excess above 1 is counted
calculate_soc_violation_above_only(soc_profiles) ==
    SumAll([i \in 1..Len(soc_profiles) |->
        [h \in 1..Len(soc_profiles[i]) |-> Max(0, soc_profiles[i][h] - SocOne)]])

\* Mutant: only the last hour of each trajectory is counted
calculate_soc_violation_final_only(soc_profiles) ==
    SumSeq([i \in 1..Len(soc_profiles) |->
        LET last == soc_profiles[i][Len(soc_profiles[i])]
        IN  Max(0, -last) + Max(0, last - SocOne)])

\* EVChargingProblem._calculate_soc_violation
calculate_soc_violation(soc_profiles) ==
    LET below_zero == SumAll([i \in 1..Len(soc_profiles) |->
                          [h \in 1..Len(soc_profiles[i]) |-> Max(0, -soc_profiles[i][h])]])
        above_one == SumAll([i \in 1..Len(soc_profiles) |->
                          [h \in 1..Len(soc_profiles[i]) |-> Max(0, soc_profiles[i][h] - SocOne)]])
    IN  below_zero + above_one

\* EVChargingProblem._calculate_power_violation
calculate_power_violation(s, pm) ==
    LET total_power == SumAxis0(pm, s.time_horizon)
    IN  MaxSeq([h \in 1..s.time_horizon |-> Max(0, Abs(total_power[h]) - s.site_max_power)])

\* The locals of one _evaluate call after lines 69-76
evaluate_frame(s, v) ==
    LET n_vehicles == Len(s.vehicles)
        t_horizon == s.time_horizon
        mask == get_availability_mask(s)
        power_matrix == apply_mask(reshape(v, n_vehicles, t_horizon), mask)
    IN  [mask |-> mask,
         power_matrix |-> power_matrix,
         soc_profiles |-> calculate_soc_profiles(s, power_matrix)]

\* EVChargingProblem._evaluate: the out dict it fills
evaluate(s, v) ==
    LET f == evaluate_frame(s, v)
    IN  [F |-> <<calculate_cost(s, f.power_matrix),
                 calculate_dissatisfaction(s, f.soc_profiles),
                 calculate_peak_power(s, f.power_matrix)>>,
         G |-> <<calculate_soc_violation(f.soc_profiles),
                 calculate_power_violation(s, f.power_matrix)>>]

----------------------------------------------------------------------------
(* The inputs the model draws: scenarios and candidate decision vectors *)

\* Vehicle(...) with the dataclass defaults for the two power limits
Vehicle(cap, si, st, arr, dep) ==
    [battery_capacity |-> cap, soc_initial |-> si, soc_target |-> st,
     arrival_time |-> arr, departure_time |-> dep,
     charging_power_min |-> charging_power_min,
     charging_power_max |-> charging_power_max]

\* The vehicle of the spec's concrete scenario: 30 kWh, 0.2 -> 0.8, hours 6..10
ConcreteVehicle == Vehicle(60, 24, 96, 6, 10)
\* The spec's overnight vehicle: arrival 22, departure 6
OvernightVehicle == Vehicle(60, 24, 96, 22, 6)

VehiclePool ==
    { Vehicle(60, 24, 96, 0, 2),      \* same-day stay inside the horizon
      Vehicle(120, 60, 120, 1, 10),   \* departure past a short horizon
      Vehicle(60, 108, 60, 2, 1),     \* overnight wrap, starts above its target
      Vehicle(60, 0, 96, 1, 1),       \* arrival = departure, empty battery
      ConcreteVehicle }               \* absent during a short horizon

\* The values a cell of a decision vector takes: xl, 0, 7.5 kW, xu
PowerValues == {charging_power_min, 0, 15, charging_power_max}

FlatPrice(t) == [h \in 1..t |-> 20]
TouPrice(t) == [h \in 1..t |-> 10 * ((h - 1) % 3)]

Scenario(vs, prices, site, t) ==
    [vehicles |-> vs, price_profile |-> prices, site_max_power |-> site,
     time_horizon |-> t]

\* Spec section 8: one vehicle, flat price 0.20, site_max_power 60 kW, horizon 24
ConcreteScenario == Scenario(<<ConcreteVehicle>>, FlatPrice(HoursPerDay), 120, HoursPerDay)
OvernightScenario == Scenario(<<OvernightVehicle>>, TouPrice(HoursPerDay), 120, HoursPerDay)

VehicleLists == UNION {[1..n -> VehiclePool] : n \in 1..MaxVehicles}

SmallScenarios ==
    {Scenario(vs, FlatPrice(SmallHorizon), 120, SmallHorizon) : vs \in VehicleLists}
    \cup {Scenario(vs, TouPrice(SmallHorizon), 20, SmallHorizon) : vs \in VehicleLists}

\* Every energy step of the scenario is a whole number of SoC units
FixedPointExact(s) ==
    \A i \in 1..Len(s.vehicles) : \A p \in PowerValues :
        (p * dt * SocOne) % s.vehicles[i].battery_capacity = 0

Scenarios ==
    {s \in SmallScenarios \cup {ConcreteScenario, OvernightScenario} :
        /\ scenario_valid(s)
        /\ \A i \in 1..Len(s.vehicles) : vehicle_valid(s.vehicles[i])
        /\ FixedPointExact(s)}

NVars(s) == Len(s.vehicles) * s.time_horizon

ConstVector(s, v) == [c \in 1..NVars(s) |-> v]
SpikeVector(s, c0, v) == [c \in 1..NVars(s) |-> IF c = c0 THEN v ELSE 0]
\* 7.5 kW in every cell where the vehicle is present, 0 elsewhere
WindowVector(s) ==
    [c \in 1..NVars(s) |->
        IF get_availability_mask(s)[((c - 1) \div s.time_horizon) + 1]
                                   [((c - 1) % s.time_horizon) + 1]
        THEN 15 ELSE 0]
AlternatingVector(s) ==
    [c \in 1..NVars(s) |-> IF c % 2 = 1 THEN charging_power_max ELSE charging_power_min]

\* Candidates inside the bound box [xl, xu] that the search may propose
Candidates(s) ==
    {ConstVector(s, v) : v \in PowerValues}
    \cup {SpikeVector(s, c, v) : c \in 1..NVars(s), v \in PowerValues \ {0}}
    \cup {WindowVector(s), AlternatingVector(s)}

NoOut == [F |-> <<>>, G |-> <<>>]
NoFrame == [mask |-> <<>>, power_matrix |-> <<>>, soc_profiles |-> <<>>]

Calls == 1..NumCalls

----------------------------------------------------------------------------
(* Sequential use: the search evaluates one candidate after another *)

\* Python's None, and a present value, for a field that may hold no object
None == <<>>
Some(v) == <<v>>

\* No optimize() call, no Scenario construction, no calculate_all() call
NoOpt == [pc |-> "idle", problem |-> None, n_evals |-> 0, res |-> None,
          result |-> None, error |-> "none", message |-> <<>>]
NoBuild == [pc |-> "idle", args |-> None, obj |-> None, error |-> "none"]
NoMet == [pc |-> "idle", calc |-> None, raises |-> {}, pareto_front |-> <<>>,
          locals |-> None, metrics |-> None]

\* No FileCache constructed
NoCache == [pc |-> "idle", default_ttl |-> None, use_pickle |-> FALSE,
            files |-> <<>>, now |-> 0, set_args |-> <<>>, last |-> None]

\* No use case constructed
NoUseCase == [pc |-> "idle", has_cache |-> FALSE, files |-> <<>>, now |-> 0,
              n_calls |-> 0, kind |-> "none", args |-> None, scenario |-> None,
              sessions |-> None, events |-> <<>>, result |-> None,
              error |-> "none"]

\* No request under way
NoRequest == [pc |-> "idle", max_retries |-> 0, failures |-> <<>>,
              attempt |-> 0, n_requests |-> 0, slept |-> <<>>,
              response |-> None, error |-> "none"]

\* No generator in use
NoGenerator == [pc |-> "idle", rng |-> 0, n_other |-> 0, call |-> None,
                done |-> <<>>]

IoIdle ==
    /\ fc = NoCache
    /\ uc = NoUseCase
    /\ req = NoRequest
    /\ gen = NoGenerator

ServicesIdle ==
    /\ opt = NoOpt
    /\ build = NoBuild
    /\ met = NoMet
    /\ IoIdle

ConcIdle ==
    /\ cpc = [w \in Calls |-> "idle"]
    /\ cx = [w \in Calls |-> <<>>]
    /\ cframe = [w \in Calls |-> NoFrame]
    /\ cout = [w \in Calls |-> NoOut]

Init ==
    /\ scenario \in Scenarios
    /\ x \in Candidates(scenario)
    /\ out = NoOut
    /\ frame = NoFrame
    /\ ConcIdle
    /\ ServicesIdle

\* problem._evaluate(x, out): fills the out dict of this call
Evaluate ==
    /\ out = NoOut
    /\ out' = evaluate(scenario, x)
    /\ frame' = evaluate_frame(scenario, x)
    /\ UNCHANGED <<scenario, x, concVars, serviceVars, ioVars>>

\* The search proposes its next candidate, with a fresh out dict
NextCandidate ==
    /\ out # NoOut
    /\ \E v \in Candidates(scenario) \ {x} : x' = v
    /\ out' = NoOut
    /\ frame' = NoFrame
    /\ UNCHANGED <<scenario, concVars, serviceVars, ioVars>>

Next == Evaluate \/ NextCandidate

Spec == Init /\ [][Next]_vars

----------------------------------------------------------------------------
(* What the specification says of one evaluation, stated on the raw input *)

Vehicles == 1..Len(scenario.vehicles)
Hours == 1..scenario.time_horizon
Cells == 1..NVars(scenario)
CellVehicle(c) == ((c - 1) \div scenario.time_horizon) + 1
CellHour(c) == ((c - 1) % scenario.time_horizon) + 1
Evaluated == out # NoOut

\* Vehicle i is present at the hour of column h
Present(i, h) == available_at(scenario.vehicles[i], h - 1)

\* The effective power of vehicle i at column h for the raw vector v
SpecPower(v, i, h) ==
    IF Present(i, h) THEN v[(i - 1) * scenario.time_horizon + h] ELSE 0

\* soc_initial[i] + sum over hours 0..t of maskedP[i,h] * dt / capacity[i]
SpecSoC(v, i, h) ==
    scenario.vehicles[i].soc_initial
    + SumSeq([k \in 1..h |->
          (SpecPower(v, i, k) * dt * SocOne) \div scenario.vehicles[i].battery_capacity])

\* The column at which dissatisfaction reads vehicle i's SoC
DepartureColumn(i) ==
    Min(scenario.vehicles[i].departure_time, scenario.time_horizon - 1) + 1

\* The site total of column h
SpecTotal(v, h) == SumSeq([i \in Vehicles |-> SpecPower(v, i, h)])

Negated(v) == [c \in DOMAIN v |-> -v[c]]

----------------------------------------------------------------------------
(* C1 *)

\* C1: the effective power is exactly 0 in every cell where available_at is
\* false, and changing the raw value of x at such a cell, all other cells
\* fixed, changes none of cost, dissatisfaction, peak_power, soc_violation,
\* power_violation.
C1_MaskedCellsIgnored ==
    Evaluated =>
        /\ \A i \in Vehicles : \A h \in Hours :
              ~Present(i, h) => frame.power_matrix[i][h] = 0
        /\ \A c \in Cells : ~Present(CellVehicle(c), CellHour(c)) =>
              \A changed \in {[x EXCEPT ![c] = v] : v \in PowerValues} :
                  evaluate(scenario, changed) = out

\* An evaluated vector with a nonzero raw value at an absent cell and a
\* nonzero value at a present cell (so the outputs are not all trivial)
C1_Witness ==
    /\ Evaluated
    /\ \E c \in Cells : ~Present(CellVehicle(c), CellHour(c)) /\ x[c] # 0
    /\ out.F[3] > 0

----------------------------------------------------------------------------
(* C2 *)

SpecSocExcursion(v) ==
    SumSeq([i \in Vehicles |->
        SumSeq([h \in Hours |->
            Max(0, -SpecSoC(v, i, h)) + Max(0, SpecSoC(v, i, h) - SocOne)])])

\* C2: soc_violation is the sum over all vehicles and all hours of
\* max(0, -SoC) + max(0, SoC - 1), with SoC the initial SoC plus the
\* cumulated masked energy; it is >= 0, and 0 exactly when every SoC[i,t]
\* lies in [0, 1].
C2_SocViolationIsTotalExcursion ==
    Evaluated =>
        /\ out.G[1] = SpecSocExcursion(x)
        /\ out.G[1] >= 0
        /\ (out.G[1] = 0) <=>
              (\A i \in Vehicles : \A h \in Hours :
                  0 <= SpecSoC(x, i, h) /\ SpecSoC(x, i, h) <= SocOne)

\* One vehicle dips below 0 and one rises above 1 in the same evaluation
C2_Witness ==
    /\ Evaluated
    /\ \E i \in Vehicles : \E h \in Hours : SpecSoC(x, i, h) < 0
    /\ \E i \in Vehicles : \E h \in Hours : SpecSoC(x, i, h) > SocOne

----------------------------------------------------------------------------
(* C3 *)

ConcreteCase == Evaluated /\ scenario = ConcreteScenario /\ x = WindowVector(ConcreteScenario)

\* C3 as stated: in the concrete scenario, 7.5 kW at hours 6..9 and 0 elsewhere
\* yields soc_violation = 0.2 (24 units), with cost 6.0, dissatisfaction 0 and
\* peak_power 7.5.
C3_AsStated ==
    ConcreteCase => out.G[1] = 24 /\ out.F = <<1200, 0, 15>>

\* C3 amended: the same evaluation yields soc_violation = 3.0 (360 units): the
\* SoC is 1.2 at hour 9 and stays 1.2 at each of the hours 10..23, and every
\* one of these 15 hours adds its 0.2 excess; cost 6.0, dissatisfaction 0,
\* peak_power 7.5, power_violation 0.
C3_ConcreteChargeViolation ==
    ConcreteCase =>
        /\ out.G = <<360, 0>>
        /\ out.F = <<1200, 0, 15>>
        /\ \A h \in Hours : frame.soc_profiles[1][h] =
              IF h <= 6 THEN 24 ELSE IF h >= 10 THEN 144 ELSE 24 + 30 * (h - 6)

\* The concrete vector (7.5 kW exactly at hours 6, 7, 8, 9) has been evaluated
C3_Witness ==
    /\ ConcreteCase
    /\ \A c \in Cells : x[c] = (IF c \in 7..10 THEN 15 ELSE 0)

----------------------------------------------------------------------------
(* C4 *)

SpecShortfall(v, i) ==
    Max(0, scenario.vehicles[i].soc_target - SpecSoC(v, i, DepartureColumn(i)))

\* C4: dissatisfaction is the sum over vehicles of
\* max(0, soc_target - SoC at min(departure_hour, horizon-1)); a departure hour
\* >= horizon is clipped to horizon-1 and stays inside the trajectory; the
\* value is >= 0; a vehicle that ends above its target contributes 0 and does
\* not offset another vehicle's shortfall.
C4_DissatisfactionIsClippedShortfall ==
    Evaluated =>
        /\ out.F[2] = SumSeq([i \in Vehicles |-> SpecShortfall(x, i)])
        /\ \A i \in Vehicles :
              /\ DepartureColumn(i) \in DOMAIN frame.soc_profiles[i]
              /\ scenario.vehicles[i].departure_time >= scenario.time_horizon
                    => DepartureColumn(i) = scenario.time_horizon
              /\ out.F[2] >= SpecShortfall(x, i)
              /\ SpecSoC(x, i, DepartureColumn(i)) >= scenario.vehicles[i].soc_target
                    => out.F[2] = SumSeq([j \in Vehicles |->
                                    IF j = i THEN 0 ELSE SpecShortfall(x, j)])
        /\ out.F[2] >= 0

\* A vehicle departing past the horizon, one vehicle strictly above its
\* target and another strictly below it, in one evaluation
C4_Witness ==
    /\ Evaluated
    /\ \E i \in Vehicles : scenario.vehicles[i].departure_time >= scenario.time_horizon
    /\ \E i \in Vehicles :
          SpecSoC(x, i, DepartureColumn(i)) > scenario.vehicles[i].soc_target
    /\ \E i \in Vehicles :
          SpecSoC(x, i, DepartureColumn(i)) < scenario.vehicles[i].soc_target

----------------------------------------------------------------------------
(* C5 *)

\* Every effective power is <= 0, some is < 0, and each hour with a discharge
\* has a positive price
OnlyDischargesAtPositivePrice(v) ==
    /\ \A i \in Vehicles : \A h \in Hours : SpecPower(v, i, h) <= 0
    /\ \E i \in Vehicles : \E h \in Hours : SpecPower(v, i, h) < 0
    /\ \A i \in Vehicles : \A h \in Hours :
          SpecPower(v, i, h) < 0 => scenario.price_profile[h] > 0

\* C5: cost is the sum over hours of (site total) * price * dt with its sign
\* kept; a schedule that only discharges at hours with positive price has a
\* strictly negative cost.
C5_CostIsSigned ==
    Evaluated =>
        /\ out.F[1] = SumSeq([h \in Hours |->
                          SpecTotal(x, h) * scenario.price_profile[h] * dt])
        /\ OnlyDischargesAtPositivePrice(x) => out.F[1] < 0

\* A discharge-only schedule at positive prices has been evaluated
C5_Witness == Evaluated /\ OnlyDischargesAtPositivePrice(x)

----------------------------------------------------------------------------
(* C6 *)

\* C6: peak_power is the maximum over hours of |site total|, so negating the
\* schedule leaves peak_power and power_violation unchanged; power_violation
\* is max(0, peak_power - site_max_power), the worst single hour.
C6_PeakIsMagnitude ==
    Evaluated =>
        /\ \A h \in Hours : out.F[3] >= Abs(SpecTotal(x, h))
        /\ \E h \in Hours : out.F[3] = Abs(SpecTotal(x, h))
        /\ \A r \in {evaluate(scenario, negated) : negated \in {Negated(x)}} :
              /\ r.F[3] = out.F[3]
              /\ r.G[2] = out.G[2]
        /\ out.G[2] = Max(0, out.F[3] - scenario.site_max_power)

\* Two hours exceed the site cap (so a sum over hours would differ from the
\* worst hour) and the site total is negative at the peak
C6_Witness ==
    /\ Evaluated
    /\ out.G[2] > 0
    /\ Cardinality({h \in Hours : Abs(SpecTotal(x, h)) > scenario.site_max_power}) >= 2
    /\ \E h \in Hours : SpecTotal(x, h) < 0 /\ out.F[3] = -SpecTotal(x, h)

----------------------------------------------------------------------------
(* C7 *)

ZeroVector == ConstVector(scenario, 0)

\* C7: for the all-zero decision vector cost = 0, peak_power = 0,
\* soc_violation = 0, power_violation = 0 and dissatisfaction is the sum over
\* vehicles of max(0, soc_target - soc_initial), which is 0.6 (72 units) in the
\* concrete scenario.
C7_ZeroVector ==
    (Evaluated /\ x = ZeroVector) =>
        /\ out.F[1] = 0
        /\ out.F[3] = 0
        /\ out.G = <<0, 0>>
        /\ out.F[2] = SumSeq([i \in Vehicles |->
              Max(0, scenario.vehicles[i].soc_target - scenario.vehicles[i].soc_initial)])
        /\ scenario = ConcreteScenario => out.F[2] = 72

\* The zero vector evaluated in the concrete scenario
C7_Witness == Evaluated /\ x = ZeroVector /\ scenario = ConcreteScenario

\* The zero vector evaluated where one vehicle starts above its target and
\* another below
C7_WitnessMixed ==
    /\ Evaluated /\ x = ZeroVector
    /\ \E i \in Vehicles : scenario.vehicles[i].soc_target < scenario.vehicles[i].soc_initial
    /\ \E i \in Vehicles : scenario.vehicles[i].soc_target > scenario.vehicles[i].soc_initial

----------------------------------------------------------------------------
(* C8 *)

\* C8: raising the power at a cell where the vehicle is available, every other
\* cell fixed, never lowers that vehicle's SoC at its departure index and never
\* raises dissatisfaction.
C8_Monotone ==
    Evaluated =>
        \A c \in Cells : Present(CellVehicle(c), CellHour(c)) =>
            \A raised \in {[x EXCEPT ![c] = v] : v \in {u \in PowerValues : u > x[c]}} :
                \A r \in {evaluate(scenario, raised)} :
                \A f \in {evaluate_frame(scenario, raised)} :
                    LET i == CellVehicle(c)
                    IN  /\ f.soc_profiles[i][DepartureColumn(i)]
                              >= frame.soc_profiles[i][DepartureColumn(i)]
                        /\ r.F[2] <= out.F[2]

\* Some raise at an available cell strictly lowers dissatisfaction, and some
\* raise at an available cell takes a vehicle from below to above its target
C8_Witness ==
    /\ Evaluated
    /\ \E c \in Cells :
          /\ Present(CellVehicle(c), CellHour(c))
          /\ \E raised \in {[x EXCEPT ![c] = v] : v \in {u \in PowerValues : u > x[c]}} :
                /\ \E r \in {evaluate(scenario, raised)} : r.F[2] < out.F[2]
                /\ SpecSoC(x, CellVehicle(c), DepartureColumn(CellVehicle(c)))
                      < scenario.vehicles[CellVehicle(c)].soc_target
                /\ SpecSoC(raised, CellVehicle(c), DepartureColumn(CellVehicle(c)))
                      > scenario.vehicles[CellVehicle(c)].soc_target

----------------------------------------------------------------------------
(* C10 *)

DayHours == 0..(HoursPerDay - 1)

\* C10: available_at(hour) is arrival <= hour < departure when departure >
\* arrival, and (hour >= arrival or hour < departure) otherwise; the vehicle
\* with arrival 22 and departure 6 is available exactly at hours
\* {22,23,0,1,2,3,4,5}; a vehicle with arrival = departure is available at
\* every hour; every cell of the availability mask equals available_at.
C10_Availability ==
    /\ \A i \in Vehicles : \A hour \in DayHours :
          LET v == scenario.vehicles[i]
          IN  /\ v.departure_time > v.arrival_time =>
                    (available_at(v, hour) <=>
                        (v.arrival_time <= hour /\ hour < v.departure_time))
              /\ v.departure_time <= v.arrival_time =>
                    (available_at(v, hour) <=>
                        (hour >= v.arrival_time \/ hour < v.departure_time))
              /\ v.arrival_time = v.departure_time => available_at(v, hour)
    /\ Evaluated =>
          /\ DOMAIN frame.mask = Vehicles
          /\ \A i \in Vehicles :
                /\ DOMAIN frame.mask[i] = Hours
                /\ \A h \in Hours :
                      frame.mask[i][h] = available_at(scenario.vehicles[i], h - 1)
    /\ (Evaluated /\ scenario = OvernightScenario) =>
          {h \in DayHours : frame.mask[1][h + 1]} = {22, 23, 0, 1, 2, 3, 4, 5}

\* The overnight vehicle's mask has been built over a 24-hour horizon
C10_Witness ==
    /\ Evaluated /\ scenario = OvernightScenario
    /\ frame.mask[1][23] /\ ~frame.mask[1][7]

\* A mask has been built for a vehicle with arrival = departure
C10_WitnessEqual ==
    /\ Evaluated
    /\ \E i \in Vehicles :
          scenario.vehicles[i].arrival_time = scenario.vehicles[i].departure_time

----------------------------------------------------------------------------
(* Concurrent use: several _evaluate calls on one problem object, their       *)
(* statements interleaved (optimization_service.py lines 64-88).  Each call  *)
(* has its own input vector, its own out dict and its own locals; the        *)
(* Scenario is the one object they share.                                    *)

NoLocals ==
    [power_matrix |-> <<>>, mask |-> <<>>, soc_profiles |-> <<>>,
     cost |-> 0, dissatisfaction |-> 0, peak_power |-> 0,
     soc_violation |-> 0, power_violation |-> 0]

\* Mutant: the intermediates are kept on the problem object, shared by all calls
frame_of_shared(w) == 1

\* Where call w keeps power_matrix, mask, soc_profiles, ...: they are local
\* names of _evaluate, so each call has its own
frame_of(w) == w

Locals(w) == cframe[frame_of(w)]

\* Call w executes the statement at position `from`, which leaves its locals
\* as `locals`, and moves to position `to`
Advance(w, from, to, locals) ==
    /\ cpc[w] = from
    /\ cpc' = [cpc EXCEPT ![w] = to]
    /\ cframe' = [cframe EXCEPT ![frame_of(w)] = locals]
    /\ UNCHANGED <<scenario, seqVars, cx, cout, serviceVars, ioVars>>

\* Two scenarios the concurrent calls share: an always-present vehicle first
ConcScenarios ==
    {s \in Scenarios :
        /\ s.time_horizon = SmallHorizon
        /\ Len(s.vehicles) = MaxVehicles
        /\ s.site_max_power = 20
        /\ s.vehicles[1] = Vehicle(60, 0, 96, 1, 1)
        /\ \A i \in 2..Len(s.vehicles) :
              s.vehicles[i] \in {Vehicle(60, 108, 60, 2, 1), Vehicle(60, 24, 96, 0, 2)}}

ConcInputs(s) ==
    {ConstVector(s, charging_power_max), AlternatingVector(s), WindowVector(s)}

InitConc ==
    /\ scenario \in ConcScenarios
    /\ x = ConstVector(scenario, 0)
    /\ out = NoOut
    /\ frame = NoFrame
    /\ ConcIdle
    /\ ServicesIdle

\* The search calls problem._evaluate(x, out) with a vector and a fresh out dict
Call(w) ==
    /\ cpc[w] = "idle"
    /\ \E v \in ConcInputs(scenario) : cx' = [cx EXCEPT ![w] = v]
    /\ cout' = [cout EXCEPT ![w] = NoOut]
    /\ cframe' = [cframe EXCEPT ![frame_of(w)] = NoLocals]
    /\ cpc' = [cpc EXCEPT ![w] = "reshape"]
    /\ UNCHANGED <<scenario, seqVars, serviceVars, ioVars>>

\* line 69: power_matrix = x.reshape((n_vehicles, t_horizon))
StepReshape(w) ==
    Advance(w, "reshape", "mask",
        [Locals(w) EXCEPT !.power_matrix =
            reshape(cx[w], Len(scenario.vehicles), scenario.time_horizon)])

\* lines 72-73: mask = get_availability_mask(); power_matrix = power_matrix * mask
StepMask(w) ==
    Advance(w, "mask", "soc",
        [Locals(w) EXCEPT !.mask = get_availability_mask(scenario),
                          !.power_matrix = apply_mask(Locals(w).power_matrix,
                                                      get_availability_mask(scenario))])

\* line 76
StepSoc(w) ==
    Advance(w, "soc", "cost",
        [Locals(w) EXCEPT !.soc_profiles =
            calculate_soc_profiles(scenario, Locals(w).power_matrix)])

\* line 79
StepCost(w) ==
    Advance(w, "cost", "dissatisfaction",
        [Locals(w) EXCEPT !.cost = calculate_cost(scenario, Locals(w).power_matrix)])

\* line 80
StepDissatisfaction(w) ==
    Advance(w, "dissatisfaction", "peak",
        [Locals(w) EXCEPT !.dissatisfaction =
            calculate_dissatisfaction(scenario, Locals(w).soc_profiles)])

\* line 81
StepPeak(w) ==
    Advance(w, "peak", "soc_violation",
        [Locals(w) EXCEPT !.peak_power =
            calculate_peak_power(scenario, Locals(w).power_matrix)])

\* line 84
StepSocViolation(w) ==
    Advance(w, "soc_violation", "power_violation",
        [Locals(w) EXCEPT !.soc_violation =
            calculate_soc_violation(Locals(w).soc_profiles)])

\* line 85
StepPowerViolation(w) ==
    Advance(w, "power_violation", "write_out",
        [Locals(w) EXCEPT !.power_violation =
            calculate_power_violation(scenario, Locals(w).power_matrix)])

\* lines 87-88: out["F"] = [...]; out["G"] = [...]
StepWriteOut(w) ==
    /\ cpc[w] = "write_out"
    /\ cout' = [cout EXCEPT ![w] =
          [F |-> <<Locals(w).cost, Locals(w).dissatisfaction, Locals(w).peak_power>>,
           G |-> <<Locals(w).soc_violation, Locals(w).power_violation>>]]
    /\ cpc' = [cpc EXCEPT ![w] = "done"]
    /\ UNCHANGED <<scenario, seqVars, cx, cframe, serviceVars, ioVars>>

\* The caller has read the out dict; the call's slot is free again
Return(w) ==
    /\ cpc[w] = "done"
    /\ cpc' = [cpc EXCEPT ![w] = "idle"]
    /\ UNCHANGED <<scenario, seqVars, cx, cframe, cout, serviceVars, ioVars>>

NextConc ==
    \E w \in Calls :
        \/ Call(w)
        \/ StepReshape(w)
        \/ StepMask(w)
        \/ StepSoc(w)
        \/ StepCost(w)
        \/ StepDissatisfaction(w)
        \/ StepPeak(w)
        \/ StepSocViolation(w)
        \/ StepPowerViolation(w)
        \/ StepWriteOut(w)
        \/ Return(w)

SpecConc == InitConc /\ [][NextConc]_vars

----------------------------------------------------------------------------
(* C9 *)

\* C9: under any interleaving of concurrent _evaluate calls that share one
\* Scenario and carry different vectors, each call returns exactly the (F, G)
\* it returns when run alone, and no step of a call modifies the Scenario, its
\* own input vector, or the input, locals or output of another call.
C9_Reentrant ==
    /\ [](\A w \in Calls : cpc[w] = "done" => cout[w] = evaluate(scenario, cx[w]))
    /\ [][/\ scenario' = scenario
          /\ \A w \in Calls :
                /\ cpc[w] # "idle" => cx'[w] = cx[w]
                /\ cpc'[w] = cpc[w] =>
                      /\ cx'[w] = cx[w]
                      /\ cframe'[w] = cframe[w]
                      /\ cout'[w] = cout[w]]_vars

\* Two calls with different vectors are both in the middle of _evaluate, and
\* the results they are heading for differ
C9_Witness ==
    /\ cpc[1] = "peak" /\ cpc[2] = "soc"
    /\ cx[1] # cx[2]
    /\ \A r1 \in {evaluate(scenario, cx[1])} : \A r2 \in {evaluate(scenario, cx[2])} :
          r1 # r2

----------------------------------------------------------------------------
(* Feasibility of a scenario: Vehicle.energy_needed, hours_available,      *)
(* minimum_charging_power and Scenario.is_feasible                           *)

\* Vehicle.energy_needed, in units of 1/(2*SocOne) kWh
energy_needed(v) == (v.soc_target - v.soc_initial) * v.battery_capacity

\* Mutant: an overnight stay is measured without the wrap over midnight
hours_available_no_wrap(v) == Abs(v.departure_time - v.arrival_time)

\* Vehicle.hours_available
hours_available(v) ==
    IF v.departure_time > v.arrival_time
    THEN v.departure_time - v.arrival_time
    ELSE (HoursPerDay - v.arrival_time) + v.departure_time

\* Vehicle.minimum_charging_power: float('inf') when hours == 0, otherwise
\* the quotient energy_needed / hours, kept as numerator and denominator
minimum_charging_power(v) ==
    LET hours == hours_available(v)
    IN  IF hours = 0
        THEN [inf |-> TRUE, n |-> 0, d |-> 1]
        ELSE [inf |-> FALSE, n |-> energy_needed(v), d |-> hours]

\* min_power > vehicle.charging_power_max, both brought to 1/(2*SocOne) kW
exceeds_power_max(min_power, v) ==
    min_power.inf \/ min_power.n > v.charging_power_max * SocOne * min_power.d

\* Scenario.is_feasible
is_feasible(s) ==
    \A i \in 1..Len(s.vehicles) :
        ~exceeds_power_max(minimum_charging_power(s.vehicles[i]), s.vehicles[i])

----------------------------------------------------------------------------
(* MetricsCalculator (src/src/services/metrics_calculator.py).  A value the  *)
(* calculator derives by division is kept exact, as numerator n over a       *)
(* positive denominator d                                                    *)

Rat(n, d) == [n |-> n, d |-> d]
RLess(a, b) == a.n * b.d < b.n * a.d
RLeq(a, b) == a.n * b.d <= b.n * a.d
REq(a, b) == a.n * b.d = b.n * a.d

RECURSIVE GCD(_, _)
GCD(a, b) == IF b = 0 THEN a ELSE GCD(b, a % b)
LCM(a, b) == (a * b) \div GCD(a, b)

RECURSIVE LcmSeq(_)
LcmSeq(s) == IF Len(s) = 0 THEN 1 ELSE LCM(s[1], LcmSeq(Tail(s)))

RECURSIVE ProdSeq(_)
ProdSeq(s) == IF Len(s) = 0 THEN 1 ELSE s[1] * ProdSeq(Tail(s))

RECURSIVE MinSeq(_)
\* np.min of a non-empty 1-d array
MinSeq(s) ==
    IF Len(s) = 1 THEN s[1]
    ELSE LET rest == MinSeq(Tail(s)) IN IF s[1] <= rest THEN s[1] ELSE rest

RECURSIVE SumOver(_, _)
\* The sum of f over the finite set dom
SumOver(f, dom) ==
    IF dom = {} THEN 0
    ELSE LET k == CHOOSE k \in dom : TRUE IN f[k] + SumOver(f, dom \ {k})

Column(pf, j) == [i \in 1..Len(pf) |-> pf[i][j]]
\* np.min(pareto_front, axis=0) and np.max(pareto_front, axis=0)
MinAxis0(pf) == [j \in 1..Len(pf[1]) |-> MinSeq(Column(pf, j))]
MaxAxis0(pf) == [j \in 1..Len(pf[1]) |-> MaxSeq(Column(pf, j))]

\* MetricsCalculator(reference_point, margin, normalize)
MetricsCalculator(reference_point, margin, normalize) ==
    [reference_point |-> reference_point, margin |-> margin, normalize |-> normalize]

\* margin: float = 0.1
DefaultMargin == Rat(1, 10)
\* MetricsCalculator(): no reference point, margin 0.1, normalization on
DefaultCalculator == MetricsCalculator(None, DefaultMargin, TRUE)

\* MetricsCalculator._compute_reference_point: max_values * (1 + margin)
compute_reference_point(calc, pf) ==
    LET max_values == MaxAxis0(pf)
    IN  [j \in 1..Len(max_values) |->
            Rat(max_values[j] * (calc.margin.d + calc.margin.n), calc.margin.d)]

\* Mutant: the column minimum is not subtracted
normalize_frame_no_shift(pf) ==
    LET min_vals == MinAxis0(pf)
        max_vals == MaxAxis0(pf)
        range_vals == [j \in 1..Len(min_vals) |->
                         IF max_vals[j] - min_vals[j] = 0 THEN 1
                         ELSE max_vals[j] - min_vals[j]]
    IN  [pareto_front |-> pf, min_vals |-> min_vals, max_vals |-> max_vals,
         range_vals |-> range_vals,
         normalized_pf |-> [i \in 1..Len(pf) |-> [j \in 1..Len(pf[i]) |->
                               Rat(pf[i][j], range_vals[j])]]]

\* MetricsCalculator._normalize: every array alive when it returns.  min_vals,
\* max_vals and range_vals are new arrays; range_vals[range_vals == 0] = 1.0
\* writes into range_vals; the subtraction and the division allocate
normalize_frame(pf) ==
    LET min_vals == MinAxis0(pf)
        max_vals == MaxAxis0(pf)
        range_vals == [j \in 1..Len(min_vals) |->
                         IF max_vals[j] - min_vals[j] = 0 THEN 1
                         ELSE max_vals[j] - min_vals[j]]
    IN  [pareto_front |-> pf, min_vals |-> min_vals, max_vals |-> max_vals,
         range_vals |-> range_vals,
         normalized_pf |-> [i \in 1..Len(pf) |-> [j \in 1..Len(pf[i]) |->
                               Rat(pf[i][j] - min_vals[j], range_vals[j])]]]

\* A front of raw objective values as exact values
AsExact(pf) == [i \in 1..Len(pf) |-> [j \in 1..Len(pf[i]) |-> Rat(pf[i][j], 1)]]

\* np.ones(n)
Ones(n) == [j \in 1..n |-> Rat(1, 1)]

\* pymoo's HV(ref_point)(pf): the volume of the union of the boxes [p, ref]
\* over the rows p below ref, by inclusion and exclusion over the sets of
\* rows, on the grid of each column's common denominator
HV(ref_point, pf) ==
    LET cols == 1..Len(ref_point)
        rows == 1..Len(pf)
        denom == [j \in cols |->
                    LCM(ref_point[j].d, LcmSeq([i \in rows |-> pf[i][j].d]))]
        P == [i \in rows |-> [j \in cols |-> pf[i][j].n * (denom[j] \div pf[i][j].d)]]
        R == [j \in cols |-> ref_point[j].n * (denom[j] \div ref_point[j].d)]
        volume == [S \in (SUBSET rows) \ {{}} |->
                     LET side == [j \in cols |->
                                    Max(0, R[j] - MaxSeq([k \in 1..Cardinality(S) |->
                                        LET i == CHOOSE i \in S :
                                                   Cardinality({m \in S : m < i}) = k - 1
                                        IN  P[i][j]]))]
                     IN  (IF Cardinality(S) % 2 = 1 THEN 1 ELSE -1) * ProdSeq(side)]
    IN  Rat(SumOver(volume, DOMAIN volume), ProdSeq(denom))

\* The one member of a singleton set, and a sequence with every element
\* worked out: they hold a value that is computed once and read many times
Only(S) == CHOOSE y \in S : TRUE

RECURSIVE Eager(_, _)
Eager(f, n) == IF n = 0 THEN <<>> ELSE Append(Eager(f, n - 1), f[n])

EagerMatrix(m) == Eager([i \in 1..Len(m) |-> Eager(m[i], Len(m[i]))], Len(m))

\* calculate_all, lines 69-76: the front the indicators are measured on and
\* the reference point of the hypervolume
calculate_all_frame(calc, pf) ==
    LET nf == normalize_frame(pf)
    IN  [pareto_front |-> IF calc.normalize THEN nf.pareto_front ELSE pf,
         pf_for_metrics |-> EagerMatrix(IF calc.normalize THEN nf.normalized_pf
                                        ELSE AsExact(pf)),
         ref_point |-> IF calc.reference_point = None
                       THEN Eager(IF calc.normalize THEN Ones(Len(pf[1]))
                                  ELSE compute_reference_point(calc, pf), Len(pf[1]))
                       ELSE calc.reference_point[1]]

Objectives(v) == [cost |-> v[1], dissatisfaction |-> v[2], peak_power |-> v[3]]

\* A quotient in lowest terms
Reduced(a) ==
    Only({Rat(a.n \div g, a.d \div g) : g \in {GCD(Abs(a.n), a.d)}})

RECURSIVE GcdSeq(_)
GcdSeq(s) == IF Len(s) = 0 THEN 0 ELSE GCD(s[1], GcdSeq(Tail(s)))

\* The square of every row's distance to every row, as integers over one
\* common denominator: np.linalg.norm(pf[k] - pf[i]) ** 2 = sq[i][k] / den
distances_squared(pf) ==
    Only({
    Only({
    Only({
    Only({
        [den |-> L * L,
         sq |-> EagerMatrix([i \in 1..Len(P) |-> [k \in 1..Len(P) |->
                   SumSeq([j \in 1..Len(denom) |->
                      (((P[k][j] - P[i][j]) \div common[j])
                            * (L \div (denom[j] \div common[j])))
                    * (((P[k][j] - P[i][j]) \div common[j])
                            * (L \div (denom[j] \div common[j])))])]])]
        : L \in {LcmSeq([j \in 1..Len(denom) |-> denom[j] \div common[j]])} })
        : common \in {Eager([j \in 1..Len(denom) |->
                         GCD(denom[j],
                             GcdSeq([m \in 1..(Len(P) * Len(P)) |->
                                       Abs(P[((m - 1) \div Len(P)) + 1][j]
                                             - P[((m - 1) % Len(P)) + 1][j])]))],
                       Len(denom))} })
        : P \in {EagerMatrix([i \in 1..Len(pf) |-> [j \in 1..Len(denom) |->
                                pf[i][j].n * (denom[j] \div pf[i][j].d)]])} })
        : denom \in {Eager([j \in 1..Len(pf[1]) |->
                              LcmSeq([i \in 1..Len(pf) |-> pf[i][j].d])],
                           Len(pf[1]))} })

\* np.sqrt(np.mean((distances - np.mean(distances)) ** 2)) of distances that
\* are square roots: kept as the squares of the distances, and whether the
\* deviation is 0, which is when the distances are all equal
StdOfRoots(squares) ==
    [zero |-> \A i \in 1..Len(squares) : \A k \in 1..Len(squares) :
                 Reduced(squares[i]) = Reduced(squares[k]),
     distances_squared |-> [i \in 1..Len(squares) |-> Reduced(squares[i])]]

\* Mutant: a row's own distance 0 is not removed before the minimum
spacing_with_self(pf) ==
    IF Len(pf) <= 1 THEN [zero |-> TRUE, distances_squared |-> <<>>]
    ELSE Only({StdOfRoots(Eager([i \in 1..Len(pf) |->
                 Rat(MinSeq([k \in 1..Len(pf) |-> ds.sq[i][k]]), ds.den)], Len(pf)))
               : ds \in {distances_squared(pf)}})

\* MetricsCalculator._spacing: 0.0 for N <= 1; otherwise the deviation of
\* every row's least distance to the rows left by np.delete(pf, i, axis=0)
spacing(pf) ==
    IF Len(pf) <= 1 THEN [zero |-> TRUE, distances_squared |-> <<>>]
    ELSE Only({StdOfRoots(Eager([i \in 1..Len(pf) |->
                 Rat(MinSeq([m \in 1..(Len(pf) - 1) |->
                               ds.sq[i][IF m < i THEN m ELSE m + 1]]), ds.den)],
                 Len(pf)))
               : ds \in {distances_squared(pf)}})

\* np.std of a column: the square root of mean((x - mean) ** 2), kept as
\* that mean, (N * sum(x * x) - sum(x) ** 2) / N ** 2
std_squared(col) ==
    Rat(Len(col) * SumSeq([i \in 1..Len(col) |-> col[i] * col[i]])
            - SumSeq(col) * SumSeq(col),
        Len(col) * Len(col))

\* Mutant: a raising call ends calculate_all with nothing computed
calculate_all_raising_abort(calc, pf, raises) ==
    IF Len(pf) = 0 \/ raises # {} THEN <<>>
    ELSE Only({
             [hypervolume |-> Some(HV(f.ref_point, f.pf_for_metrics)),
              reference_point |-> Some(f.ref_point),
              spacing |-> Some(spacing(f.pf_for_metrics)),
              n_solutions |-> Len(f.pareto_front),
              best_objectives |-> Objectives(MinAxis0(f.pareto_front)),
              worst_objectives |-> Objectives(MaxAxis0(f.pareto_front)),
              mean_objectives |->
                  Objectives([j \in 1..Len(pf[1]) |->
                      Rat(SumSeq(Column(f.pareto_front, j)), Len(f.pareto_front))]),
              std_objectives_squared |->
                  Objectives([j \in 1..Len(pf[1]) |->
                      std_squared(Column(f.pareto_front, j))])]
             : f \in {calculate_all_frame(calc, pf)}})

\* MetricsCalculator.calculate_all when the calls named in raises (of the two
\* try blocks: "hypervolume", "spacing") raise: the metrics dict, {} for a
\* front that is None or empty
calculate_all_raising(calc, pf, raises) ==
    IF Len(pf) = 0 THEN <<>>
    ELSE Only({
             [hypervolume |-> IF "hypervolume" \in raises THEN None
                              ELSE Some(HV(f.ref_point, f.pf_for_metrics)),
              reference_point |-> IF "hypervolume" \in raises THEN None
                                  ELSE Some(f.ref_point),
              spacing |-> IF "spacing" \in raises THEN None
                          ELSE Some(spacing(f.pf_for_metrics)),
              n_solutions |-> Len(f.pareto_front),
              best_objectives |-> Objectives(MinAxis0(f.pareto_front)),
              worst_objectives |-> Objectives(MaxAxis0(f.pareto_front)),
              mean_objectives |->
                  Objectives([j \in 1..Len(pf[1]) |->
                      Rat(SumSeq(Column(f.pareto_front, j)), Len(f.pareto_front))]),
              std_objectives_squared |->
                  Objectives([j \in 1..Len(pf[1]) |->
                      std_squared(Column(f.pareto_front, j))])]
             : f \in {calculate_all_frame(calc, pf)}})

\* MetricsCalculator.calculate_all when no library call raises
calculate_all(calc, pf) == calculate_all_raising(calc, pf, {})

----------------------------------------------------------------------------
(* GDE3OptimizerService.optimize: validation, problem, search, result       *)

MaxFront == 2

\* Mutant: validation only looks at the vehicle list
validate_scenario_vehicles_only(s) ==
    IF Len(s.vehicles) = 0 THEN "ValueError" ELSE "none"

\* GDE3OptimizerService.validate_scenario: the exception it raises, if any
validate_scenario(s) ==
    IF ~is_feasible(s) THEN "ValueError"
    ELSE IF Len(s.vehicles) = 0 THEN "ValueError"
    ELSE "none"

\* EVChargingProblem.__init__: the problem object handed to minimize
EVChargingProblem(s) ==
    [scenario |-> s, n_var |-> NVars(s), n_obj |-> 3, n_ieq_constr |-> 2,
     xl |-> charging_power_min, xu |-> charging_power_max]

\* Mutant: the last of the cheapest rows is taken
argmin_last(col) ==
    CHOOSE b \in 1..Len(col) :
        /\ \A j \in 1..Len(col) : col[b] <= col[j]
        /\ \A j \in (b + 1)..Len(col) : col[j] > col[b]

\* np.argmin: the first index of the smallest value
argmin(col) ==
    CHOOSE b \in 1..Len(col) :
        /\ \A j \in 1..Len(col) : col[b] <= col[j]
        /\ \A j \in 1..(b - 1) : col[j] > col[b]

\* A vehicle the default power limit cannot serve, one served exactly at a
\* lowered limit, one just below it, and the vehicles of the evaluator's pool
WithPowerMax(v, pmax) == [v EXCEPT !.charging_power_max = pmax]

OptVehiclePool ==
    { Vehicle(60, 24, 96, 0, 2),                     \* needs 9 kW of 30
      WithPowerMax(Vehicle(60, 24, 96, 0, 2), 18),   \* needs 9 kW of 9
      WithPowerMax(Vehicle(60, 24, 96, 0, 2), 15),   \* needs 9 kW of 7.5
      Vehicle(120, 0, 120, 23, 1),                   \* overnight, 30 kW of 30
      WithPowerMax(Vehicle(60, 0, 96, 1, 1), 2),     \* 24 hours, 1 kW of 1
      Vehicle(60, 108, 60, 2, 1),                    \* starts above its target
      ConcreteVehicle }                              \* absent in a short horizon

OptScenarios ==
    {s \in {Scenario(vs, FlatPrice(SmallHorizon), 120, SmallHorizon) :
                vs \in UNION {[1..n -> OptVehiclePool] : n \in 1..MaxVehicles}}
           \cup {Scenario(vs, TouPrice(SmallHorizon), 20, SmallHorizon) :
                vs \in UNION {[1..n -> OptVehiclePool] : n \in 1..MaxVehicles}} :
        /\ scenario_valid(s)
        /\ \A i \in 1..Len(s.vehicles) : vehicle_valid(s.vehicles[i])
        /\ FixedPointExact(s)}

\* The vectors a population of the search is made of
OptCandidates(s) ==
    {ConstVector(s, 0), SpikeVector(s, 1, charging_power_max),
     SpikeVector(s, NVars(s), charging_power_max), WindowVector(s)}

\* The fronts minimize may return: up to MaxFront members, possibly none
Populations(s) == UNION {[1..n -> OptCandidates(s)] : n \in 0..MaxFront}

InitOpt ==
    /\ scenario \in OptScenarios
    /\ x = ConstVector(scenario, 0)
    /\ out = NoOut
    /\ frame = NoFrame
    /\ ConcIdle
    /\ build = NoBuild
    /\ met = NoMet
    /\ opt = [NoOpt EXCEPT !.pc = "validate"]
    /\ IoIdle

optFrame == <<scenario, seqVars, concVars, build, met, ioVars>>

\* line 176: self.validate_scenario(scenario), outside the try block
ValidateScenario ==
    /\ opt.pc = "validate"
    /\ \E err \in {validate_scenario(scenario)} :
          opt' = IF err # "none"
                 THEN [opt EXCEPT !.pc = "raised", !.error = err]
                 ELSE [opt EXCEPT !.pc = "problem"]
    /\ UNCHANGED optFrame

\* line 186: problem = EVChargingProblem(scenario)
BuildProblem ==
    /\ opt.pc = "problem"
    /\ opt' = [opt EXCEPT !.pc = "minimize",
                          !.problem = Some(EVChargingProblem(scenario))]
    /\ UNCHANGED optFrame

\* line 209: OptimizationError("No valid solutions found")
NoSolutionsFound ==
    [type |-> "OptimizationError", message |-> <<"No valid solutions found">>]

\* Exceptions the search or the assembly of the result may raise in the try
\* block
CaughtExceptions ==
    { [type |-> "ValueError", message |-> <<"cannot reshape array">>],
      [type |-> "RuntimeError", message |-> <<"evaluation failed">>] }

\* lines 264-266: except Exception as e:
\*     raise OptimizationError(f"Optimization failed: {e}")
wrap_exception(e) ==
    [type |-> "OptimizationError",
     message |-> <<"Optimization failed: ">> \o e.message]

\* lines 189-203 and 264-266: an exception raised inside minimize
MinimizeRaises ==
    /\ opt.pc = "minimize"
    /\ \E e \in CaughtExceptions :
          opt' = [opt EXCEPT !.pc = "raised", !.n_evals = 1,
                             !.error = wrap_exception(e).type,
                             !.message = wrap_exception(e).message]
    /\ UNCHANGED optFrame

\* lines 189-203: minimize(problem, GDE3, n_gen, seed=1) evaluates vectors of
\* the problem and returns res; res.F is two-dimensional for n_obj = 3
Minimize ==
    /\ opt.pc = "minimize"
    /\ \E pop \in Populations(opt.problem[1].scenario) :
          opt' = [opt EXCEPT
                    !.pc = "extract",
                    !.n_evals = Max(1, Len(pop)),
                    !.res = Some([X |-> pop,
                                  F |-> [k \in 1..Len(pop) |->
                                           evaluate(opt.problem[1].scenario, pop[k]).F]])]
    /\ UNCHANGED optFrame

\* lines 208-255: the primary solution and the OptimizationResult; an empty
\* front raises inside the try block and leaves as OptimizationError
ExtractResult ==
    /\ opt.pc = "extract"
    /\ \E res \in {opt.res[1]} :
          IF Len(res.F) = 0
          THEN opt' = [opt EXCEPT !.pc = "raised",
                                  !.error = wrap_exception(NoSolutionsFound).type,
                                  !.message = wrap_exception(NoSolutionsFound).message]
          ELSE \E best_idx \in {argmin([k \in 1..Len(res.F) |-> res.F[k][1]])} :
                 opt' = [opt EXCEPT
                    !.pc = "done",
                    !.result = Some(
                       [metrics |-> [cost |-> res.F[best_idx][1],
                                     dissatisfaction |-> res.F[best_idx][2],
                                     peak_power |-> res.F[best_idx][3]],
                        charging_schedule |->
                            reshape(res.X[best_idx], Len(scenario.vehicles),
                                    scenario.time_horizon),
                        n_vehicles |-> Len(scenario.vehicles),
                        n_hours |-> scenario.time_horizon,
                        solutions_found |-> Len(res.F),
                        converged |-> TRUE,
                        pareto_front |-> res.F,
                        performance_metrics |->
                            calculate_all(DefaultCalculator, res.F)])]
    /\ UNCHANGED optFrame

NextOpt ==
    ValidateScenario \/ BuildProblem \/ Minimize \/ MinimizeRaises \/ ExtractResult

SpecOpt == InitOpt /\ [][NextOpt]_vars

----------------------------------------------------------------------------
(* Claims about feasibility and optimize *)

Validated == opt.pc \notin {"idle", "validate"}

\* The hours of a stay as the specification counts them
SpecHours(v) ==
    IF v.departure_time > v.arrival_time
    THEN v.departure_time - v.arrival_time
    ELSE (24 - v.arrival_time) + v.departure_time

\* (soc_target - soc_initial) * battery_capacity / hours <= charging_power_max,
\* cleared of the division: SoC in 1/SocOne, capacity in 0.5 kWh, power in 0.5 kW
SpecVehicleFeasible(v) ==
    (v.soc_target - v.soc_initial) * v.battery_capacity
        <= v.charging_power_max * SocOne * SpecHours(v)

SiteValues == {1, 20, 120, 240}

\* C11: is_feasible() is true exactly when every vehicle's required average
\* power over its hours of stay (wrapping over midnight when departure is not
\* after arrival) is at most its charging_power_max; the answer is the
\* conjunction of the vehicles' own answers and does not change with
\* site_max_power
C11_FeasibleIsPerVehicle ==
    Validated =>
        /\ (opt.error # "ValueError") <=>
              (\A i \in Vehicles : SpecVehicleFeasible(scenario.vehicles[i]))
        /\ is_feasible(scenario) <=>
              (\A i \in Vehicles :
                  is_feasible([scenario EXCEPT !.vehicles = <<scenario.vehicles[i]>>]))
        /\ \A site \in SiteValues :
              is_feasible([scenario EXCEPT !.site_max_power = site])
                  = is_feasible(scenario)

\* Validation has run on two vehicles present at the same hours, one of which
\* is served exactly at its limit, and on a scenario an overnight vehicle
\* makes feasible only through the wrap
C11_Witness ==
    /\ opt.pc = "problem"
    /\ Len(scenario.vehicles) = 2
    /\ scenario.vehicles[1] = WithPowerMax(Vehicle(60, 24, 96, 0, 2), 18)
    /\ scenario.vehicles[2] = Vehicle(120, 0, 120, 23, 1)

\* Vehicle i is present at no hour of the horizon
AbsentThroughout(i) == \A h \in Hours : ~get_availability_mask(scenario)[i][h]

\* C12 as stated: a vehicle whose mask row is all false keeps its initial SoC
\* at every hour under every decision vector, and when its energy_needed is
\* nonzero the scenario is rejected as infeasible
C12_AsStated ==
    \A i \in Vehicles :
        AbsentThroughout(i) =>
            /\ \A v \in OptCandidates(scenario) :
                 \A f \in {evaluate_frame(scenario, v)} :
                    \A h \in Hours :
                        f.soc_profiles[i][h] = scenario.vehicles[i].soc_initial
            /\ (Validated /\ energy_needed(scenario.vehicles[i]) # 0)
                  => opt.error = "ValueError"

\* C13: optimize() on a scenario that is not feasible raises at validation:
\* no problem object is built, the evaluator is never invoked and no
\* OptimizationResult exists, at any point of the call
C13_InfeasibleStopsBeforeProblem ==
    ~is_feasible(scenario) =>
        /\ opt.problem = None
        /\ opt.n_evals = 0
        /\ opt.res = None
        /\ opt.result = None
        /\ opt.pc \in {"validate", "raised"}
        /\ Validated => (opt.pc = "raised" /\ opt.error = "ValueError")

C13_Witness ==
    /\ ~is_feasible(scenario)
    /\ opt.pc = "raised"
    /\ Len(scenario.vehicles) = 2
    /\ is_feasible([scenario EXCEPT !.vehicles = <<scenario.vehicles[1]>>])

\* C16: the primary solution is the first row of least cost of the front:
\* metrics is that row, charging_schedule is the decision vector of the same
\* index as a vehicles x hours matrix, pareto_front is the front as returned
\* and solutions_found its number of rows
C16_PrimaryIsFirstCheapest ==
    opt.pc = "done" =>
        \E res \in {opt.res[1]} : \E result \in {opt.result[1]} :
        \E b \in 1..Len(res.F) :
            /\ \A j \in 1..Len(res.F) : res.F[b][1] <= res.F[j][1]
            /\ \A j \in 1..(b - 1) : res.F[j][1] > res.F[b][1]
            /\ result.metrics.cost = res.F[b][1]
            /\ result.metrics.dissatisfaction = res.F[b][2]
            /\ result.metrics.peak_power = res.F[b][3]
            /\ \A i \in Vehicles : \A h \in Hours :
                  result.charging_schedule[i][h]
                      = res.X[b][(i - 1) * scenario.time_horizon + h]
            /\ Len(result.charging_schedule) = Len(scenario.vehicles)
            /\ result.pareto_front = res.F
            /\ result.solutions_found = Len(res.F)

\* A front of two rows of equal least cost and different decision vectors
C16_Witness ==
    /\ opt.pc = "done"
    /\ Len(opt.res[1].F) = 2
    /\ opt.res[1].F[1][1] = opt.res[1].F[2][1]
    /\ opt.res[1].X[1] # opt.res[1].X[2]
    /\ opt.res[1].F[1] # opt.res[1].F[2]

----------------------------------------------------------------------------
(* Construction of a Scenario: Vehicle.__post_init__ on every vehicle, then *)
(* Scenario.__post_init__                                                    *)

\* Arguments a caller may pass to Vehicle(...): valid ones and one off in
\* each validated field
VehicleArgs ==
    { Vehicle(60, 24, 96, 0, 2),
      Vehicle(60, 24, 96, 22, 23),     \* hours of the day beyond a short horizon
      Vehicle(60, -1, 96, 0, 2),       \* soc_initial < 0
      Vehicle(60, 24, 121, 0, 2),      \* soc_target > 1
      Vehicle(60, 24, 96, 24, 2),      \* arrival_time = 24
      Vehicle(60, 24, 96, 0, -1),      \* departure_time < 0
      Vehicle(0, 24, 96, 0, 2) }       \* battery_capacity = 0

HorizonArgs == {-1, 0, SmallHorizon}
SiteArgs == {-20, 0, 120}

BuildArgs ==
    [vehicles : UNION {[1..n -> VehicleArgs] : n \in 0..MaxVehicles},
     price_profile : {FlatPrice(n) : n \in 0..(SmallHorizon + 1)},
     site_max_power : SiteArgs,
     time_horizon : HorizonArgs]

InitBuild ==
    /\ scenario = ConcreteScenario
    /\ x = ConstVector(scenario, 0)
    /\ out = NoOut
    /\ frame = NoFrame
    /\ ConcIdle
    /\ opt = NoOpt
    /\ met = NoMet
    /\ \E a \in BuildArgs : build = [NoBuild EXCEPT !.pc = "vehicles", !.args = Some(a)]
    /\ IoIdle

buildFrame == <<scenario, seqVars, concVars, opt, met, ioVars>>

\* The caller builds the Vehicle objects; each runs _validate and the first
\* failure raises ValueError
ConstructVehicles ==
    /\ build.pc = "vehicles"
    /\ build' = IF \A i \in 1..Len(build.args[1].vehicles) :
                      vehicle_valid(build.args[1].vehicles[i])
                THEN [build EXCEPT !.pc = "scenario"]
                ELSE [build EXCEPT !.pc = "raised", !.error = "ValueError"]
    /\ UNCHANGED buildFrame

\* Scenario(vehicles, price_profile, site_max_power, time_horizon): the
\* dataclass stores its arguments and __post_init__ validates them
ConstructScenario ==
    /\ build.pc = "scenario"
    /\ \E s \in {Scenario(build.args[1].vehicles, build.args[1].price_profile,
                         build.args[1].site_max_power, build.args[1].time_horizon)} :
          build' = IF scenario_valid(s)
                   THEN [build EXCEPT !.pc = "built", !.obj = Some(s)]
                   ELSE [build EXCEPT !.pc = "raised", !.error = "ValueError"]
    /\ UNCHANGED buildFrame

NextBuild == ConstructVehicles \/ ConstructScenario

SpecBuild == InitBuild /\ [][NextBuild]_vars

----------------------------------------------------------------------------
(* Claims about construction *)

BuildEnded == build.pc \in {"built", "raised"}

\* C14 as stated: construction raises and yields no Scenario whenever the
\* price profile's length differs from time_horizon, site_max_power <= 0,
\* time_horizon <= 0 or the vehicle list is empty; a Scenario that is built
\* holds its arguments as given
C14_AsStated ==
    BuildEnded =>
        \E a \in {build.args[1]} :
            /\ (\/ Len(a.price_profile) # a.time_horizon
                \/ a.site_max_power <= 0
                \/ a.time_horizon <= 0
                \/ Len(a.vehicles) = 0)
                  => (build.pc = "raised" /\ build.error = "ValueError"
                        /\ build.obj = None)
            /\ build.pc = "built" =>
                  build.obj = Some(Scenario(a.vehicles, a.price_profile,
                                            a.site_max_power, a.time_horizon))

\* C15 as stated: in a constructed Scenario every vehicle's arrival and
\* departure hour lie in [0, time_horizon), its SoC values in [0, 1] and its
\* battery capacity is positive
C15_AsStated ==
    build.pc = "built" =>
        \A s \in {build.obj[1]} : \A i \in 1..Len(s.vehicles) :
            /\ 0 <= s.vehicles[i].arrival_time
            /\ s.vehicles[i].arrival_time < s.time_horizon
            /\ 0 <= s.vehicles[i].departure_time
            /\ s.vehicles[i].departure_time < s.time_horizon
            /\ 0 <= s.vehicles[i].soc_initial /\ s.vehicles[i].soc_initial <= SocOne
            /\ 0 <= s.vehicles[i].soc_target /\ s.vehicles[i].soc_target <= SocOne
            /\ s.vehicles[i].battery_capacity > 0

\* C15: in a constructed Scenario every vehicle's arrival and departure hour
\* lie in [0, 24), whatever the time_horizon, its SoC values in [0, 1] and
\* its battery capacity is positive
C15_HoursWithinDay ==
    build.pc = "built" =>
        \A s \in {build.obj[1]} : \A i \in 1..Len(s.vehicles) :
            /\ 0 <= s.vehicles[i].arrival_time
            /\ s.vehicles[i].arrival_time < 24
            /\ 0 <= s.vehicles[i].departure_time
            /\ s.vehicles[i].departure_time < 24
            /\ 0 <= s.vehicles[i].soc_initial /\ s.vehicles[i].soc_initial <= SocOne
            /\ 0 <= s.vehicles[i].soc_target /\ s.vehicles[i].soc_target <= SocOne
            /\ s.vehicles[i].battery_capacity > 0

\* A Scenario is built whose horizon is shorter than a vehicle's hours
C15_Witness ==
    /\ build.pc = "built"
    /\ \E i \in 1..Len(build.obj[1].vehicles) :
          build.obj[1].vehicles[i].departure_time >= build.obj[1].time_horizon

----------------------------------------------------------------------------
(* One MetricsCalculator and the fronts handed to its calculate_all         *)

\* Objective rows: costs below zero, a column without spread, three rows
\* equally spaced along the first objective
PointPool ==
    { <<0, 0, 0>>, <<1, 0, 0>>, <<2, 0, 0>>, <<-1, 1, 0>>, <<-2, 2, 1>>,
      <<1, 2, 3>>, <<2, 1, 3>> }

MaxRows == 3

\* The fronts handed to calculate_all: up to MaxRows rows, possibly none
Fronts == UNION {[1..n -> PointPool] : n \in 0..MaxRows}

Calculators ==
    {MetricsCalculator(ref, DefaultMargin, norm) :
        ref \in {None, Some(<<Rat(4, 1), Rat(4, 1), Rat(5, 1)>>)},
        norm \in BOOLEAN}

\* A calculator and the library calls that raise during the call
MetricsCalls ==
    {[calc |-> c, raises |-> {}] : c \in Calculators}
    \cup {[calc |-> DefaultCalculator, raises |-> r] :
             r \in (SUBSET {"hypervolume", "spacing"}) \ {{}}}

InitMetrics ==
    /\ scenario = ConcreteScenario
    /\ x = ConstVector(scenario, 0)
    /\ out = NoOut
    /\ frame = NoFrame
    /\ ConcIdle
    /\ opt = NoOpt
    /\ build = NoBuild
    /\ \E c \in MetricsCalls : \E pf \in Fronts :
          met = [NoMet EXCEPT !.pc = "called", !.calc = Some(c.calc),
                              !.raises = c.raises, !.pareto_front = pf]
    /\ IoIdle

metFrame == <<scenario, seqVars, concVars, opt, build, ioVars>>

\* calculator.calculate_all(pareto_front)
CalculateAll ==
    /\ met.pc = "called"
    /\ met' = [met EXCEPT
                 !.pc = "returned",
                 !.pareto_front =
                     IF Len(met.pareto_front) = 0 THEN met.pareto_front
                     ELSE calculate_all_frame(met.calc[1], met.pareto_front).pareto_front,
                 !.locals =
                     IF Len(met.pareto_front) = 0 THEN None
                     ELSE Some(calculate_all_frame(met.calc[1], met.pareto_front)),
                 !.metrics = Some(calculate_all_raising(met.calc[1], met.pareto_front,
                                                        met.raises))]
    /\ UNCHANGED metFrame

\* The caller's front gains a member and calculate_all is called on it
CallWithPoint ==
    /\ met.pc = "returned"
    /\ Len(met.pareto_front) < MaxRows
    /\ \E p \in PointPool :
          met' = [met EXCEPT !.pc = "called",
                             !.pareto_front = Append(met.pareto_front, p),
                             !.locals = None, !.metrics = None]
    /\ UNCHANGED metFrame

NextMetrics == CalculateAll \/ CallWithPoint

SpecMetrics == InitMetrics /\ [][NextMetrics]_vars

----------------------------------------------------------------------------
(* Claims about the metrics calculator *)

Returned == met.pc = "returned" /\ Len(met.pareto_front) > 0
NoReferenceGiven == met.calc[1].reference_point = None
Rows == 1..Len(met.pareto_front)
Cols == 1..Len(met.pareto_front[1])

\* a is at least as good as b in every objective and better in one
Dominates(a, b) ==
    /\ \A j \in 1..Len(a) : a[j] <= b[j]
    /\ \E j \in 1..Len(a) : a[j] < b[j]

MutuallyNonDominated(pf) ==
    \A i \in 1..Len(pf) : \A k \in 1..Len(pf) : ~Dominates(pf[i], pf[k])

\* C17 as stated: under the default calculator, for a front of mutually
\* non-dominated rows and a point that dominates no row and is dominated by
\* none, the hypervolume reported for the front with the point is at least
\* the hypervolume reported for the front
C17_AsStated ==
    (Returned /\ met.calc[1] = DefaultCalculator
        /\ MutuallyNonDominated(met.pareto_front)) =>
        \A p \in PointPool :
            (\A i \in Rows : ~Dominates(p, met.pareto_front[i])
                               /\ ~Dominates(met.pareto_front[i], p)) =>
                \A more \in {calculate_all(DefaultCalculator,
                                           Append(met.pareto_front, p))} :
                    RLeq(met.metrics[1].hypervolume[1], more.hypervolume[1])

\* C18 as stated: when no reference point is supplied, the reference point
\* calculate_all uses is strictly greater, in every objective, than every
\* row of the front the hypervolume is measured on
C18_AsStated ==
    (Returned /\ NoReferenceGiven) =>
        \A f \in {met.locals[1]} : \A i \in Rows : \A j \in Cols :
            RLess(f.pf_for_metrics[i][j], f.ref_point[j])

\* C19 as stated: when no reference point is supplied, the reference point is
\* column_max * (1 + margin) of the front the hypervolume is measured on,
\* and it is what the metrics report as reference_point
C19_AsStated ==
    (Returned /\ NoReferenceGiven) =>
        \A f \in {met.locals[1]} : \A m \in {met.calc[1].margin} :
            /\ \A j \in Cols : \E i \in Rows :
                  /\ \A k \in Rows :
                        RLeq(f.pf_for_metrics[k][j], f.pf_for_metrics[i][j])
                  /\ REq(f.ref_point[j],
                         Rat(f.pf_for_metrics[i][j].n * (m.d + m.n),
                             f.pf_for_metrics[i][j].d * m.d))
            /\ met.metrics[1].reference_point = Some(f.ref_point)

\* The normalized front of the call holds, for every row and column,
\* (value - column_min) / range within [0, 1], 0 at the column minimum and 1
\* at the column maximum of a column with spread, and 0 over the divisor 1
\* throughout a column without spread
NormalizedAsSpecified ==
    (Returned /\ met.calc[1].normalize) =>
        \A f \in {met.locals[1]} : \A i \in Rows : \A j \in Cols :
        \A lo \in {MinSeq(Column(met.pareto_front, j))} :
        \A hi \in {MaxSeq(Column(met.pareto_front, j))} :
        \A v \in {f.pf_for_metrics[i][j]} :
            /\ v.d > 0
            /\ RLeq(Rat(0, 1), v) /\ RLeq(v, Rat(1, 1))
            /\ hi # lo => /\ REq(v, Rat(met.pareto_front[i][j] - lo, hi - lo))
                          /\ v.d = hi - lo
                          /\ met.pareto_front[i][j] = lo => v.n = 0
                          /\ met.pareto_front[i][j] = hi => REq(v, Rat(1, 1))
            /\ hi = lo => v = Rat(0, 1)

\* C20: _normalize maps every column of a non-empty front by
\* (value - column_min) / range into [0, 1], the minimum to 0 and the maximum
\* to 1 when the range is nonzero, a column of zero range being divided by 1
\* and becoming constant 0; the front passed in is the same after the call
C20_NormalizeColumns ==
    /\ []NormalizedAsSpecified
    /\ [][(met.pc = "called" /\ met'.pc = "returned")
             => met'.pareto_front = met.pareto_front]_vars

\* A normalized front of several rows with a column of zero range, a column
\* with spread whose minimum is not 0, and a value strictly inside (0, 1)
C20_Witness ==
    /\ Returned /\ met.calc[1].normalize
    /\ \E j \in Cols : MinSeq(Column(met.pareto_front, j))
                          = MaxSeq(Column(met.pareto_front, j))
    /\ \E j \in Cols : /\ MinSeq(Column(met.pareto_front, j)) < 0
                       /\ MaxSeq(Column(met.pareto_front, j)) > 0
    /\ \E i \in Rows : \E j \in Cols :
          /\ RLess(Rat(0, 1), met.locals[1].pf_for_metrics[i][j])
          /\ RLess(met.locals[1].pf_for_metrics[i][j], Rat(1, 1))

----------------------------------------------------------------------------
(* Claims about spacing and about calculate_all when a call raises *)

\* The square of the Euclidean distance of rows i and k of the measured front
SpecDistanceSquared(f, i, k) ==
    Only({Rat(SumSeq([j \in 1..Len(f[i]) |->
                 LET d == (f[i][j].n * f[k][j].d - f[k][j].n * f[i][j].d)
                            * (den \div (f[i][j].d * f[k][j].d))
                 IN  d * d]), den * den)
          : den \in {ProdSeq([j \in 1..Len(f[i]) |-> f[i][j].d * f[k][j].d])}})

MaxGap == 4

\* The rows differ in one objective only, where they are lo, lo + g, ...,
\* lo + (N - 1) * g in some order
EquallySpacedAlongOneAxis(pf) ==
    \E a \in 1..Len(pf[1]) : \E g \in 1..MaxGap :
        /\ \A i \in 1..Len(pf) : \A j \in 1..Len(pf[1]) \ {a} : pf[i][j] = pf[1][j]
        /\ \A lo \in {MinSeq(Column(pf, a))} :
              {pf[i][a] : i \in 1..Len(pf)} = {lo + m * g : m \in 0..(Len(pf) - 1)}
        /\ Cardinality({pf[i][a] : i \in 1..Len(pf)}) = Len(pf)

\* C21: spacing is the population standard deviation of every row's distance
\* to its nearest other row; it is 0 for a front of 0 or 1 rows, for a front
\* of 2 rows, and for rows equally spaced along one axis
C21_SpacingIsNearestNeighbourDeviation ==
    /\ spacing(<<>>).zero
    /\ (Returned /\ "spacing" \notin met.raises) =>
          \A sp \in {met.metrics[1].spacing[1]} :
          \A f \in {met.locals[1].pf_for_metrics} :
              /\ Len(f) <= 2 => sp.zero
              /\ EquallySpacedAlongOneAxis(met.pareto_front) => sp.zero
              /\ Len(f) >= 2 =>
                    /\ Len(sp.distances_squared) = Len(f)
                    /\ \A i \in Rows :
                          /\ \E k \in Rows \ {i} :
                                REq(sp.distances_squared[i],
                                    SpecDistanceSquared(f, i, k))
                          /\ \A k \in Rows \ {i} :
                                RLeq(sp.distances_squared[i],
                                     SpecDistanceSquared(f, i, k))
                    /\ sp.zero <=>
                          \A i \in Rows : \A k \in Rows :
                             REq(sp.distances_squared[i], sp.distances_squared[k])

\* Three rows equally spaced along the first objective, measured normalized
C21_Witness ==
    /\ Returned /\ "spacing" \notin met.raises /\ met.calc[1].normalize
    /\ Len(met.pareto_front) = 3
    /\ EquallySpacedAlongOneAxis(met.pareto_front)
    /\ met.metrics[1].spacing[1].zero
    /\ met.metrics[1].spacing[1].distances_squared[1] = Rat(1, 4)

\* Rows whose nearest distances differ have a spacing that is not 0
C21_WitnessUneven ==
    /\ Returned /\ "spacing" \notin met.raises
    /\ ~met.metrics[1].spacing[1].zero

\* C22: calculate_all returns a dict: {} for a front that is None or empty;
\* for a non-empty front on which the hypervolume or the spacing computation
\* raises, that metric (and reference_point with the hypervolume) is None and
\* n_solutions and the best, worst, mean and std objectives are still there
C22_ReturnsOnFailure ==
    met.pc = "returned" =>
        /\ met.metrics # None
        /\ Len(met.pareto_front) = 0 => met.metrics[1] = <<>>
        /\ Len(met.pareto_front) > 0 =>
              \A m \in {met.metrics[1]} :
                 /\ DOMAIN m = {"hypervolume", "reference_point", "spacing",
                                "n_solutions", "best_objectives",
                                "worst_objectives", "mean_objectives",
                                "std_objectives_squared"}
                 /\ (m.hypervolume = None) <=> ("hypervolume" \in met.raises)
                 /\ (m.reference_point = None) <=> ("hypervolume" \in met.raises)
                 /\ (m.spacing = None) <=> ("spacing" \in met.raises)
                 /\ m.n_solutions = Len(met.pareto_front)
                 /\ \A j \in Cols : \A col \in {Column(met.pareto_front, j)} :
                       /\ Objectives(MinAxis0(met.pareto_front)) = m.best_objectives
                       /\ \A i \in Rows : \A b \in {<<m.best_objectives.cost,
                                                    m.best_objectives.dissatisfaction,
                                                    m.best_objectives.peak_power>>} :
                             b[j] <= col[i]
                       /\ \A i \in Rows : \A w \in {<<m.worst_objectives.cost,
                                                    m.worst_objectives.dissatisfaction,
                                                    m.worst_objectives.peak_power>>} :
                             w[j] >= col[i]
                       /\ \A mean \in {<<m.mean_objectives.cost,
                                         m.mean_objectives.dissatisfaction,
                                         m.mean_objectives.peak_power>>} :
                             mean[j].n * Len(col) = SumSeq(col) * mean[j].d
                       /\ \A var \in {<<m.std_objectives_squared.cost,
                                        m.std_objectives_squared.dissatisfaction,
                                        m.std_objectives_squared.peak_power>>} :
                             /\ var[j].n >= 0 /\ var[j].d > 0
                             /\ (var[j].n = 0) <=> (\A i \in Rows : col[i] = col[1])

\* Both computations raise on a front of several rows
C22_Witness ==
    /\ met.pc = "returned"
    /\ met.raises = {"hypervolume", "spacing"}
    /\ Len(met.pareto_front) >= 2
    /\ met.metrics[1].n_solutions = Len(met.pareto_front)

----------------------------------------------------------------------------
(* Claims about the outcome of optimize and the stored schedule *)

\* optimize() ended because the search returned no solutions
NoSolutionsRaised ==
    /\ opt.pc = "raised"
    /\ opt.res # None
    /\ Len(opt.res[1].F) = 0

\* C23 as stated: when the search returns no solutions, optimize() ends with
\* an outcome whose kind no other failure of the optimization produces
C23_AsStated ==
    NoSolutionsRaised =>
        \A e \in CaughtExceptions : wrap_exception(e).type # opt.error

\* OptimizationResult.get_hourly_total
get_hourly_total(result) == SumAxis0(result.charging_schedule, result.n_hours)

\* C26 as stated: the stored charging_schedule is 0 wherever the vehicle is
\* unavailable, and the largest magnitude of its hourly totals is the
\* reported peak_power
C26_AsStated ==
    opt.pc = "done" =>
        \A result \in {opt.result[1]} :
            /\ \A i \in Vehicles : \A h \in Hours :
                  ~get_availability_mask(scenario)[i][h]
                      => result.charging_schedule[i][h] = 0
            /\ \A total \in {get_hourly_total(result)} :
                  MaxSeq([h \in Hours |-> Abs(total[h])]) = result.metrics.peak_power

\* Lines 113-116 of _calculate_dissatisfaction: the SoC read for each vehicle
final_socs(s, soc_profiles) ==
    LET departure_times == get_departure_times(s)
    IN  [i \in 1..Len(departure_times) |->
            soc_profiles[i][Min(departure_times[i], s.time_horizon - 1) + 1]]

\* C27 as stated: the SoC that dissatisfaction reads for a vehicle is its
\* soc_initial plus the energy of every hour at which it is available
C27_AsStated ==
    Evaluated =>
        \A read \in {final_socs(scenario, frame.soc_profiles)} :
            \A i \in Vehicles :
                read[i] = SpecSoC(x, i, scenario.time_horizon)

----------------------------------------------------------------------------
(* FileCache (src/src/infrastructure/cache/file_cache.py).  Time is in
   seconds; a timedelta is its number of seconds. *)

MaxClock == 3

Keys == {"a", "b"}
CacheValues == {1, 2}

\* The ttl arguments handed to set and to the constructor: None, a zero
\* duration, a positive duration
TTLs == {None, Some(0), Some(2)}
DefaultTTLs == {None, Some(1)}

\* Truth value of an Optional[timedelta] (None and timedelta(0) are falsy)
timedelta_bool(ttl) == ttl # None /\ ttl[1] # 0

\* datetime.isoformat and datetime.fromisoformat
isoformat(t) == <<"iso", t>>
fromisoformat(text) == text[2]

CacheEntry(value, timestamp, ttl) ==
    [value |-> value, timestamp |-> timestamp, ttl |-> ttl]

\* CacheEntry.is_expired at the time datetime.now() = now
is_expired(entry, now) ==
    IF entry.ttl = None THEN FALSE ELSE now > entry.timestamp + entry.ttl[1]

\* lines 111-121: the file content written for an entry
dump_entry(use_pickle, entry) ==
    IF use_pickle
    THEN [format |-> "pickle", entry |-> entry]
    ELSE [format |-> "json", value |-> entry.value,
          timestamp |-> isoformat(entry.timestamp),
          ttl |-> IF timedelta_bool(entry.ttl) THEN entry.ttl ELSE None]

\* lines 73-83: the entry loaded from a file content
load_entry(use_pickle, content) ==
    IF use_pickle
    THEN content.entry
    ELSE CacheEntry(content.value, fromisoformat(content.timestamp),
                    IF content.ttl # None /\ content.ttl[1] # 0
                    THEN Some(content.ttl[1]) ELSE None)

\* FileCache.exists
exists(c, key) == c.files[key] # None

\* FileCache.delete
cache_delete(c, key) == [c EXCEPT !.files[key] = None]

\* FileCache.set: ttl = ttl or self.default_ttl
cache_set(c, key, value, ttl) ==
    [c EXCEPT !.files[key] =
        Some(dump_entry(c.use_pickle,
                        CacheEntry(value, c.now,
                                   IF timedelta_bool(ttl) THEN ttl
                                   ELSE c.default_ttl)))]

\* FileCache.get: the cache afterwards and the value returned
cache_get(c, key) ==
    IF ~exists(c, key)
    THEN [cache |-> c, value |-> None]
    ELSE LET entry == load_entry(c.use_pickle, c.files[key][1])
         IN  IF is_expired(entry, c.now)
             THEN [cache |-> cache_delete(c, key), value |-> None]
             ELSE [cache |-> c, value |-> Some(entry.value)]

Caches ==
    { [pc |-> "ready", default_ttl |-> d, use_pickle |-> u,
       files |-> [k \in Keys |-> None], now |-> 0,
       set_args |-> [k \in Keys |-> None], last |-> None] :
      d \in DefaultTTLs, u \in BOOLEAN }

InitCache ==
    /\ scenario = ConcreteScenario
    /\ x = ConstVector(scenario, 0)
    /\ out = NoOut
    /\ frame = NoFrame
    /\ ConcIdle
    /\ opt = NoOpt
    /\ build = NoBuild
    /\ met = NoMet
    /\ uc = NoUseCase
    /\ req = NoRequest
    /\ gen = NoGenerator
    /\ fc \in Caches

cacheFrame == <<scenario, seqVars, concVars, serviceVars, uc, req, gen>>

\* cache.set(key, value, ttl)
CacheSet ==
    /\ fc.pc = "ready"
    /\ \E key \in Keys : \E value \in CacheValues : \E ttl \in TTLs :
          fc' = [cache_set(fc, key, value, ttl) EXCEPT
                    !.set_args[key] = Some([value |-> value, ttl |-> ttl, at |-> fc.now]),
                    !.last = Some([op |-> "set", key |-> key, at |-> fc.now,
                                   value |-> None, exists |-> TRUE])]
    /\ UNCHANGED cacheFrame

\* cache.get(key)
CacheGet ==
    /\ fc.pc = "ready"
    /\ \E key \in Keys : \A r \in {cache_get(fc, key)} :
          fc' = [r.cache EXCEPT
                    !.last = Some([op |-> "get", key |-> key, at |-> fc.now,
                                   value |-> r.value,
                                   exists |-> exists(r.cache, key)])]
    /\ UNCHANGED cacheFrame

\* cache.delete(key)
CacheDelete ==
    /\ fc.pc = "ready"
    /\ \E key \in Keys :
          fc' = [cache_delete(fc, key) EXCEPT
                    !.set_args[key] = None,
                    !.last = Some([op |-> "delete", key |-> key, at |-> fc.now,
                                   value |-> None, exists |-> FALSE])]
    /\ UNCHANGED cacheFrame

\* Time passes between calls
CacheTick ==
    /\ fc.pc = "ready"
    /\ fc.now < MaxClock
    /\ fc' = [fc EXCEPT !.now = @ + 1]
    /\ UNCHANGED cacheFrame

NextCache == CacheSet \/ CacheGet \/ CacheDelete \/ CacheTick

SpecCache == InitCache /\ [][NextCache]_vars

\* The TTL an entry has by the interface: the one passed to set, else the
\* default
SpecTTL(ttl, default_ttl) == IF ttl # None THEN ttl ELSE default_ttl

\* C30 as stated: a get of a key set earlier and not deleted since returns
\* the value of the latest set while the time is not after its timestamp +
\* TTL, for every TTL passed to set, a zero duration included; after that it
\* returns None and the entry no longer exists; with no TTL and no default
\* the value is returned at every time
C30_AsStated ==
    (fc.pc = "ready" /\ fc.last # None) =>
        \A call \in {fc.last[1]} :
            (call.op = "get" /\ fc.set_args[call.key] # None) =>
                \A a \in {fc.set_args[call.key][1]} :
                \A ttl \in {SpecTTL(a.ttl, fc.default_ttl)} :
                    IF ttl # None /\ call.at > a.at + ttl[1]
                    THEN call.value = None /\ ~call.exists
                    ELSE call.value = Some(a.value)

----------------------------------------------------------------------------
(* CaltechRepository._make_request
   (src/src/infrastructure/repositories/caltech_repository.py) *)

MaxRetries == 3

\* What one requests.get / raise_for_status / json does: it returns, or
\* raises one of the RequestException subclasses
RequestOutcomes == {"ok", "Timeout", "ConnectionError", "HTTPError"}

RECURSIVE Patterns(_)
Patterns(n) ==
    IF n = 0 THEN {<<>>}
    ELSE {Append(p, o) : p \in Patterns(n - 1), o \in RequestOutcomes}

RECURSIVE Pow2(_)
Pow2(n) == IF n = 0 THEN 1 ELSE 2 * Pow2(n - 1)

InitRequest ==
    /\ scenario = ConcreteScenario
    /\ x = ConstVector(scenario, 0)
    /\ out = NoOut
    /\ frame = NoFrame
    /\ ConcIdle
    /\ opt = NoOpt
    /\ build = NoBuild
    /\ met = NoMet
    /\ fc = NoCache
    /\ uc = NoUseCase
    /\ gen = NoGenerator
    /\ \E m \in 0..MaxRetries : \E p \in Patterns(MaxRetries) :
          req = [NoRequest EXCEPT !.pc = "loop", !.max_retries = m, !.failures = p]

requestFrame == <<scenario, seqVars, concVars, serviceVars, fc, uc, gen>>

\* lines 67-72: an attempt that succeeds returns response.json()
RequestSucceeds ==
    /\ req.pc = "loop"
    /\ req.attempt < req.max_retries
    /\ req.failures[req.attempt + 1] = "ok"
    /\ req' = [req EXCEPT !.pc = "returned", !.n_requests = @ + 1,
                          !.response = Some([attempt |-> req.attempt])]
    /\ UNCHANGED requestFrame

\* lines 74-80: an attempt that raises RequestException sleeps and goes on,
\* or raises DataSourceError when it was the last one
RequestFails ==
    /\ req.pc = "loop"
    /\ req.attempt < req.max_retries
    /\ req.failures[req.attempt + 1] # "ok"
    /\ IF req.attempt < req.max_retries - 1
       THEN req' = [req EXCEPT !.n_requests = @ + 1, !.attempt = @ + 1,
                               !.slept = Append(@, Pow2(req.attempt))]
       ELSE req' = [req EXCEPT !.n_requests = @ + 1, !.pc = "raised",
                               !.error = "DataSourceError"]
    /\ UNCHANGED requestFrame

\* line 67: range(self.max_retries) is exhausted and the function body ends
LoopEnds ==
    /\ req.pc = "loop"
    /\ req.attempt >= req.max_retries
    /\ req' = [req EXCEPT !.pc = "returned", !.response = None]
    /\ UNCHANGED requestFrame

NextRequest == RequestSucceeds \/ RequestFails \/ LoopEnds

SpecRequest == InitRequest /\ [][NextRequest]_vars

\* C29 as stated: for every max_retries >= 0 and every failure pattern the
\* call makes at most max_retries attempts, returns the response of the first
\* successful attempt, otherwise raises DataSourceError, and never returns
\* without a response
C29_AsStated ==
    /\ req.n_requests <= req.max_retries
    /\ req.pc = "returned" =>
          /\ req.response # None
          /\ req.failures[req.response[1].attempt + 1] = "ok"
          /\ \A a \in 1..req.response[1].attempt : req.failures[a] # "ok"
    /\ req.pc = "raised" =>
          /\ req.error = "DataSourceError"
          /\ \A a \in 1..req.max_retries : req.failures[a] # "ok"

----------------------------------------------------------------------------
(* OptimizeChargingUseCase
   (src/src/application/use_cases/optimize_charging.py), wired as in
   src/src/cli/main.py: a pickle FileCache with a default TTL of one hour.
   Time is in hours. *)

MaxRuns == 2

\* line 100: ttl=timedelta(hours=24)
ScenarioTTL == 24

\* settings.cache_ttl = 3600 s
DefaultCacheTTL == 1

Sites == {"caltech"}
StartDates == {"2019-05-01"}
Limits == {None, Some(1)}
SitePowers == {20, 120}

\* The decimal text of a small natural number
str(n) == <<"0", "1", "2", "3", "4", "5", "6", "7", "8", "9">>[n + 1]

\* line 74: f"scenario_{site}_{start_date}_{limit or 'all'}"
cache_key(site, start_date, limit) ==
    <<"scenario", site, start_date,
      IF limit # None /\ limit[1] # 0 THEN str(limit[1]) ELSE "all">>

UseCaseKeys ==
    {cache_key(site, d, l) : site \in Sites, d \in StartDates, l \in Limits}

RealDataArgs ==
    [start_date : StartDates, site : Sites, site_max_power : SitePowers,
     limit : Limits, save_results : BOOLEAN]

SyntheticArgs ==
    [n_vehicles : {1}, time_horizon : {HoursPerDay}, site_max_power : SitePowers,
     seed : {Some(42)}, save_results : BOOLEAN]

\* The FileCache the use case holds
UseCaseCache(u) ==
    [default_ttl |-> Some(DefaultCacheTTL), use_pickle |-> TRUE,
     files |-> u.files, now |-> u.now]

\* What fetch_sessions does: a list of sessions, an empty list, or
\* DataSourceError from _make_request
FetchOutcomes == {"sessions", "empty", "DataSourceError"}

\* What optimizer.optimize does
OptimizeOutcomes == {"returned", "OptimizationError"}

\* The results optimize may return: with the front and the performance
\* metrics, or with neither
Results(s) ==
    { [scenario |-> s, pareto_front |-> pf, performance_metrics |-> pf] :
      pf \in BOOLEAN }

\* lines 103-109 and 148-154 with every run saving
after_optimize_always_saving(save_results, outcome) ==
    IF outcome # "returned" THEN "raised" ELSE "save"

\* lines 103-109 and 148-154: where the call goes after optimizer.optimize
after_optimize(save_results, outcome) ==
    IF outcome # "returned" THEN "raised"
    ELSE IF save_results THEN "save" ELSE "returned"

\* _save_results: the files written, in order
save_results_files(result) ==
    <<"write_json", "write_schedule_csv">>
        \o (IF result.pareto_front THEN <<"write_pareto_csv">> ELSE <<>>)
        \o (IF result.performance_metrics THEN <<"write_metrics_json">> ELSE <<>>)

InitUseCase ==
    /\ scenario = ConcreteScenario
    /\ x = ConstVector(scenario, 0)
    /\ out = NoOut
    /\ frame = NoFrame
    /\ ConcIdle
    /\ opt = NoOpt
    /\ build = NoBuild
    /\ met = NoMet
    /\ fc = NoCache
    /\ req = NoRequest
    /\ gen = NoGenerator
    /\ \E c \in BOOLEAN :
          uc = [NoUseCase EXCEPT !.pc = "ready", !.has_cache = c,
                                 !.files = [k \in UseCaseKeys |-> None]]

useCaseFrame == <<scenario, seqVars, concVars, serviceVars, fc, req, gen>>

UseCaseBetweenCalls == uc.pc \in {"ready", "returned", "raised"}

\* The state a new call starts from, some hours after the previous one
NewCall(kind, args, hours) ==
    [uc EXCEPT !.n_calls = @ + 1, !.now = @ + hours, !.kind = kind,
               !.args = Some(args), !.scenario = None, !.sessions = None,
               !.events = <<>>, !.result = None, !.error = "none"]

\* lines 45-75: execute_real_data is called
CallRealData ==
    /\ UseCaseBetweenCalls
    /\ uc.n_calls < MaxRuns
    /\ \E args \in RealDataArgs : \E hours \in {1, ScenarioTTL} :
          uc' = [NewCall("real", args, hours) EXCEPT !.pc = "lookup"]
    /\ UNCHANGED useCaseFrame

\* lines 77-81: the cache is read when there is one
Lookup ==
    /\ uc.pc = "lookup"
    /\ IF uc.has_cache
       THEN \A a \in {uc.args[1]} :
            \A r \in {cache_get(UseCaseCache(uc),
                                cache_key(a.site, a.start_date, a.limit))} :
                uc' = [uc EXCEPT !.files = r.cache.files,
                                 !.events = Append(@, "cache_get"),
                                 !.scenario = r.value,
                                 !.pc = IF r.value # None THEN "optimize" ELSE "fetch"]
       ELSE uc' = [uc EXCEPT !.pc = "fetch"]
    /\ UNCHANGED useCaseFrame

\* lines 86-90: fetch_sessions
FetchSessions ==
    /\ uc.pc = "fetch"
    /\ \E o \in FetchOutcomes :
          IF o = "DataSourceError"
          THEN uc' = [uc EXCEPT !.pc = "raised", !.error = o,
                                !.events = Append(@, "fetch")]
          ELSE uc' = [uc EXCEPT !.pc = "build", !.sessions = Some(o),
                                !.events = Append(@, "fetch")]
    /\ UNCHANGED useCaseFrame

\* lines 93-100: build_scenario, then cache.set when there is a cache
BuildAndStore ==
    /\ uc.pc = "build"
    /\ IF uc.sessions[1] = "empty"
       THEN uc' = [uc EXCEPT !.pc = "raised", !.error = "DataSourceError",
                             !.events = Append(@, "build")]
       ELSE \A a \in {uc.args[1]} :
            \A s \in {[name |-> <<a.site, a.start_date>>,
                       site_max_power |-> a.site_max_power]} :
                uc' = [uc EXCEPT
                    !.pc = "optimize",
                    !.scenario = Some(s),
                    !.files = IF uc.has_cache
                              THEN cache_set(UseCaseCache(uc),
                                             cache_key(a.site, a.start_date, a.limit),
                                             s, Some(ScenarioTTL)).files
                              ELSE @,
                    !.events = @ \o <<"build">>
                                 \o (IF uc.has_cache THEN <<"cache_set">> ELSE <<>>)]
    /\ UNCHANGED useCaseFrame

\* lines 111-137: execute_synthetic is called
CallSynthetic ==
    /\ UseCaseBetweenCalls
    /\ uc.n_calls < MaxRuns
    /\ \E args \in SyntheticArgs : \E hours \in {1, ScenarioTTL} :
          uc' = [NewCall("synthetic", args, hours) EXCEPT !.pc = "generate"]
    /\ UNCHANGED useCaseFrame

\* lines 140-145: generate_scenario
GenerateScenario ==
    /\ uc.pc = "generate"
    /\ \A a \in {uc.args[1]} :
          uc' = [uc EXCEPT !.pc = "optimize",
                           !.scenario = Some([name |-> <<"synthetic", a.n_vehicles>>,
                                              site_max_power |-> a.site_max_power]),
                           !.events = Append(@, "generate")]
    /\ UNCHANGED useCaseFrame

\* lines 103 and 148: result = self.optimizer.optimize(scenario)
Optimize ==
    /\ uc.pc = "optimize"
    /\ \E o \in OptimizeOutcomes :
          IF o = "returned"
          THEN \E result \in Results(uc.scenario[1]) :
                  uc' = [uc EXCEPT
                      !.pc = after_optimize(uc.args[1].save_results, o),
                      !.result = Some(result),
                      !.events = @ \o <<"optimize_called", "optimize_returned">>]
          ELSE uc' = [uc EXCEPT
                      !.pc = after_optimize(uc.args[1].save_results, o),
                      !.error = o,
                      !.events = @ \o <<"optimize_called", "optimize_raised">>]
    /\ UNCHANGED useCaseFrame

\* lines 106-109 and 151-154: self._save_results(result, ...) and return
SaveResults ==
    /\ uc.pc = "save"
    /\ uc' = [uc EXCEPT !.pc = "returned",
                        !.events = @ \o save_results_files(uc.result[1])]
    /\ UNCHANGED useCaseFrame

NextUseCase ==
    \/ CallRealData
    \/ Lookup
    \/ FetchSessions
    \/ BuildAndStore
    \/ CallSynthetic
    \/ GenerateScenario
    \/ Optimize
    \/ SaveResults

SpecUseCase == InitUseCase /\ [][NextUseCase]_vars

DataEvents == {"cache_get", "fetch", "build", "cache_set", "generate"}
FileEvents ==
    {"write_json", "write_schedule_csv", "write_pareto_csv", "write_metrics_json"}

Happened(event) == \E i \in DOMAIN uc.events : uc.events[i] = event

\* C24: in a call of execute_real_data or execute_synthetic no cache read,
\* cache write, fetch or scenario build comes after optimize is called, every
\* result file is written after optimize returned, and no result file is
\* written when optimize raised or save_results is false
C24_DataBeforeFilesAfter ==
    /\ \A i \in DOMAIN uc.events :
          /\ uc.events[i] \in DataEvents
                => \A j \in 1..i : uc.events[j] # "optimize_called"
          /\ uc.events[i] \in FileEvents
                => \E j \in 1..i : uc.events[j] = "optimize_returned"
    /\ (uc.args # None /\ (Happened("optimize_raised") \/ ~uc.args[1].save_results))
          => \A i \in DOMAIN uc.events : uc.events[i] \notin FileEvents

C24_Witness ==
    /\ uc.pc = "returned"
    /\ Happened("cache_get")
    /\ Happened("cache_set")
    /\ Happened("write_metrics_json")

\* C28 as stated: the scenario handed to optimizer.optimize by
\* execute_real_data has the site_max_power that call was given, fresh or
\* cached
C28_AsStated ==
    (uc.pc = "optimize" /\ uc.kind = "real") =>
        uc.scenario[1].site_max_power = uc.args[1].site_max_power

----------------------------------------------------------------------------
(* SyntheticDataGenerator
   (src/src/infrastructure/repositories/synthetic_generator.py) and the
   process-wide generator behind np.random.  The generator is a deterministic
   function of its state: a seed fixes the state, every draw advances it and
   returns a value computed from it. *)

MaxGenCalls == 2
MaxOtherDraws == 1

\* The number of states of the process-wide generator in the model
RngModulus == 4

RngStates == 0..(RngModulus - 1)

\* np.random.seed(seed)
seed_state(seed) == seed % RngModulus

\* One draw: the state moves on
next_state(state) == (5 * state + 3) % RngModulus

\* np.random.randint(low, high) and np.random.uniform(low, high) read from the
\* state reached by the draw; uniform is in SoC units
randint(low, high, state) == low + (state % (high - low))
uniform(low, high, state) == low + (state % (high - low + 1))

\* uuid.uuid4() reads the operating system's entropy, not np.random
Uuids == {"uuid-1", "uuid-2"}

GenSeeds == {None, Some(42)}
GenArgs ==
    [n_vehicles : 1..2, time_horizon : {SmallHorizon},
     site_max_power : {120}, seed : GenSeeds]

\* _generate_price_profile: 0.15 + 0.10 * sin((h - 6) * pi / 12) ** 2, in
\* units of 0.0001, for the hours of a day
SinePrices ==
    <<2500, 2433, 2250, 2000, 1750, 1567, 1500, 1567, 1750, 2000, 2250, 2433,
      2500, 2433, 2250, 2000, 1750, 1567, 1500, 1567, 1750, 2000, 2250, 2433>>

generate_price_profile(time_horizon) ==
    [h \in 1..time_horizon |-> SinePrices[((h - 1) % HoursPerDay) + 1]]

\* _generate_vehicle(idx) from generator state s0 with the identifier uuid4
\* returned: the vehicle and the state after its four draws
generate_vehicle(idx, s0, uuid) ==
    LET s1 == next_state(s0)
        s2 == next_state(s1)
        s3 == next_state(s2)
        s4 == next_state(s3)
    IN  [vehicle |-> [id |-> uuid,
                      user_id |-> <<"synthetic", idx>>,
                      fields |-> Vehicle(60, uniform(12, 48, s3),
                                         uniform(96, 120, s4),
                                         randint(6, 10, s1), randint(17, 22, s2))],
         state |-> s4]

InitGenerator ==
    /\ scenario = ConcreteScenario
    /\ x = ConstVector(scenario, 0)
    /\ out = NoOut
    /\ frame = NoFrame
    /\ ConcIdle
    /\ opt = NoOpt
    /\ build = NoBuild
    /\ met = NoMet
    /\ fc = NoCache
    /\ uc = NoUseCase
    /\ req = NoRequest
    /\ \E s \in RngStates : gen = [NoGenerator EXCEPT !.pc = "ready", !.rng = s]

generatorFrame == <<scenario, seqVars, concVars, serviceVars, fc, uc, req>>

\* lines 19-41: generate_scenario is called; a non-null seed reseeds the
\* process-wide generator
CallGenerate ==
    /\ gen.pc = "ready"
    /\ Len(gen.done) < MaxGenCalls
    /\ \E args \in GenArgs :
          gen' = [gen EXCEPT
              !.pc = "vehicles",
              !.rng = IF args.seed # None THEN seed_state(args.seed[1]) ELSE @,
              !.call = Some([args |-> args, rng_before |-> gen.rng,
                             vehicles |-> <<>>])]
    /\ UNCHANGED generatorFrame

\* lines 45-47: one iteration of the vehicle loop
GenerateVehicle ==
    /\ gen.pc = "vehicles"
    /\ Len(gen.call[1].vehicles) < gen.call[1].args.n_vehicles
    /\ \E uuid \in Uuids :
       \A g \in {generate_vehicle(Len(gen.call[1].vehicles), gen.rng, uuid)} :
          gen' = [gen EXCEPT !.rng = g.state,
                             !.call[1].vehicles = Append(@, g.vehicle)]
    /\ UNCHANGED generatorFrame

\* lines 50-61: the price profile and the Scenario; the call returns
FinishScenario ==
    /\ gen.pc = "vehicles"
    /\ Len(gen.call[1].vehicles) = gen.call[1].args.n_vehicles
    /\ \A c \in {gen.call[1]} :
          gen' = [gen EXCEPT
              !.pc = "ready",
              !.call = None,
              !.done = Append(@,
                  [args |-> c.args,
                   rng_before |-> c.rng_before,
                   rng_after |-> gen.rng,
                   scenario |-> Scenario(c.vehicles,
                                         generate_price_profile(c.args.time_horizon),
                                         c.args.site_max_power,
                                         c.args.time_horizon)])]
    /\ UNCHANGED generatorFrame

\* Another user of np.random draws, between calls or between two steps of a
\* call (_session_to_vehicle, line 216 of caltech_repository.py)
OtherDraw ==
    /\ gen.pc \in {"ready", "vehicles"}
    /\ gen.n_other < MaxOtherDraws
    /\ gen' = [gen EXCEPT !.rng = next_state(@), !.n_other = @ + 1]
    /\ UNCHANGED generatorFrame

NextGenerator == CallGenerate \/ GenerateVehicle \/ FinishScenario \/ OtherDraw

SpecGenerator == InitGenerator /\ [][NextGenerator]_vars

\* C25 as stated: two finished calls with the same arguments and the same
\* non-null seed returned the same scenario, whatever other draws came in
\* between, and a seeded call leaves the process-wide generator as it found it
C25_AsStated ==
    /\ \A i \in DOMAIN gen.done : \A j \in DOMAIN gen.done :
          (gen.done[i].args = gen.done[j].args /\ gen.done[i].args.seed # None)
              => gen.done[i].scenario = gen.done[j].scenario
    /\ \A i \in DOMAIN gen.done :
          gen.done[i].args.seed # None
              => gen.done[i].rng_after = gen.done[i].rng_before

====
